---------------------------- MODULE Spec2Model ----------------------------
(***************************************************************************)
(* A model of the numeric core of the amr-wind-frontend post-processing    *)
(* engine: the plane-local coordinate algebra of postproengine/__init__.py *)
(* and the turbulence-box (BTS) writer of postproengine/dataconverters.py. *)
(*                                                                         *)
(* Real numbers are exact rationals [num, den] in lowest terms.  The       *)
(* inputs are chosen so that every float64 operation of the code is exact  *)
(* on them (small integers and dyadic fractions, axes of integer norm);    *)
(* the places where the code narrows a value (a store into a float32       *)
(* array, a store into an integer array, astype(int16)) are modelled by    *)
(* the rounding they perform.                                              *)
(***************************************************************************)
EXTENDS Integers, Sequences, FiniteSets, TLC

VARIABLES
    call,   \* one call of the coordinate conversions: inputs, position, results
    bts,    \* one run of convert_to_bts.execute / bts_write: inputs, locals, position
    file    \* the output path of bts_write: existence, open handle, bytes written

vars == <<call, bts, file>>

-----------------------------------------------------------------------------
(* Exact rational arithmetic *)

Abs(i) == IF i < 0 THEN -i ELSE i

RECURSIVE Gcd(_, _)
Gcd(a, b) == IF b = 0 THEN a ELSE Gcd(b, a % b)

\* the result of 0/0 and of np.mean over no values; every operation on it
\* yields it again and every comparison with it is false
NaN == [num |-> 0, den |-> 0]
IsNaN(x) == x.den = 0

\* n/d in lowest terms with a positive denominator; the only division by
\* zero of the modelled code is 0/0
Rat(n, d) ==
    IF d = 0 THEN NaN
    ELSE LET g == Gcd(Abs(n), Abs(d))
             s == IF d < 0 THEN -1 ELSE 1
         IN  [num |-> s * (n \div g), den |-> s * (d \div g)]

I(n) == [num |-> n, den |-> 1]

RNeg(x) == [num |-> -x.num, den |-> x.den]
RAdd(x, y) ==
    IF IsNaN(x) \/ IsNaN(y) THEN NaN
    ELSE LET g == Gcd(x.den, y.den)
         IN  Rat(x.num * (y.den \div g) + y.num * (x.den \div g), (x.den \div g) * y.den)
RSub(x, y) == RAdd(x, RNeg(y))
RMul(x, y) ==
    IF IsNaN(x) \/ IsNaN(y) THEN NaN
    ELSE LET g1 == Gcd(Abs(x.num), y.den)
             g2 == Gcd(Abs(y.num), x.den)
         IN  Rat((x.num \div g1) * (y.num \div g2), (x.den \div g2) * (y.den \div g1))
RDiv(x, y) == RMul(x, Rat(y.den, y.num))
RLt(x, y) == RSub(x, y).num < 0
RLe(x, y) == ~IsNaN(x) /\ ~IsNaN(y) /\ RSub(x, y).num <= 0
RMin(x, y) == IF RLt(y, x) THEN y ELSE x
RMax(x, y) == IF RLt(x, y) THEN y ELSE x
RAbs(x) == [num |-> Abs(x.num), den |-> x.den]
IsInt(x) == x.den = 1

\* the integer part of x, rounding toward zero (a C cast of a float to an integer)
Trunc(x) == IF x.num >= 0 THEN x.num \div x.den ELSE -((-x.num) \div x.den)
\* the nearest integer to x, ties to the even one (np.round, IEEE round-to-nearest)
RoundHalfEven(x) ==
    LET fl == x.num \div x.den
        r2 == 2 * (x.num - fl * x.den)
    IN  IF r2 < x.den THEN fl
        ELSE IF r2 > x.den THEN fl + 1
        ELSE IF fl % 2 = 0 THEN fl ELSE fl + 1

RECURSIVE IPow2(_)
IPow2(n) == IF n = 0 THEN 1 ELSE 2 * IPow2(n - 1)
\* 2^e for an integer e
Pow2(e) == IF e >= 0 THEN I(IPow2(e)) ELSE [num |-> 1, den |-> IPow2(-e)]

\* floor(log2(n/d)) for integers n > 0, d > 0
RECURSIVE ILog2(_, _)
ILog2(n, d) == IF n < d THEN ILog2(2 * n, d) - 1
               ELSE IF n < 2 * d THEN 0
               ELSE ILog2(n, 2 * d) + 1
Log2Floor(x) == ILog2(x.num, x.den)

\* significand width of np.float32
F32Bits == 24

\* the value a float32 holds after x is stored into it: x rounded to a 24-bit
\* significand, ties to even (x within the normal range of float32)
F32(x) ==
    IF x.num = 0 THEN x
    ELSE LET e   == Log2Floor(RAbs(x))
             ulp == Pow2(e - (F32Bits - 1))
             m   == RoundHalfEven(RDiv(RAbs(x), ulp))
         IN  RMul(I(IF x.num < 0 THEN -m ELSE m), ulp)

\* the exact square root of a rational that is a perfect square
ISqrt(n) == CHOOSE r \in 0..n : r * r = n
Sqrt(x) == Rat(ISqrt(x.num), ISqrt(x.den))

-----------------------------------------------------------------------------
(* Vectors: triples of rationals (numpy arrays of shape (3,)) *)

V3(a, b, c) == <<I(a), I(b), I(c)>>
VAdd(u, v) == <<RAdd(u[1], v[1]), RAdd(u[2], v[2]), RAdd(u[3], v[3])>>
VSub(u, v) == <<RSub(u[1], v[1]), RSub(u[2], v[2]), RSub(u[3], v[3])>>
VScale(v, s) == <<RMul(v[1], s), RMul(v[2], s), RMul(v[3], s)>>
VDiv(v, s) == <<RDiv(v[1], s), RDiv(v[2], s), RDiv(v[3], s)>>
Dot(u, v) == RAdd(RAdd(RMul(u[1], v[1]), RMul(u[2], v[2])), RMul(u[3], v[3]))
\* np.linalg.norm
Norm(v) == Sqrt(Dot(v, v))

-----------------------------------------------------------------------------
(* postproengine/__init__.py: plane-local coordinate algebra *)

\* offsets is [kind |-> "scalar", val |-> x] or [kind |-> "list"/"array", val |-> <<...>>]
offsetlist(offsets) ==
    IF offsets.kind \notin {"list", "array"} THEN <<offsets.val>> ELSE offsets.val

\* n1, n2 = axis/np.linalg.norm(axis)
UnitAxis(axis) == VDiv(axis, Norm(axis))
\* n3: axis3 is normalised only when its norm is positive
UnitAxis3(axis3) ==
    IF RLt(I(0), Norm(axis3)) THEN VDiv(axis3, Norm(axis3)) ELSE axis3

\* origin + n3*offsetlist[iplane] (iplane counts from 0, as in the source)
PlaneOrigin(origin, axis3, offsets, iplane) ==
    VAdd(origin, VScale(UnitAxis3(axis3), offsetlist(offsets)[iplane + 1]))

\* a mutant: the axes are used without normalisation
convert_pt_axis1axis2_to_xyz_unnormalised(ptlist, origin, axis1, axis2, axis3, offsets, iplane) ==
    [i \in DOMAIN ptlist |->
        VAdd(VAdd(PlaneOrigin(origin, axis3, offsets, iplane),
                  VScale(axis1, ptlist[i][1])),
             VScale(axis2, ptlist[i][2]))]

convert_pt_axis1axis2_to_xyz(ptlist, origin, axis1, axis2, axis3, offsets, iplane) ==
    LET n1      == UnitAxis(axis1)
        n2      == UnitAxis(axis2)
        porigin == PlaneOrigin(origin, axis3, offsets, iplane)
    IN  [i \in DOMAIN ptlist |->
            VAdd(VAdd(porigin, VScale(n1, ptlist[i][1])), VScale(n2, ptlist[i][2]))]

\* a store of the float vector v into a row of an array of the given dtype:
\* an integer array keeps the integer part of each component
StoreAs(dtype, v) == IF dtype = "int" THEN [i \in DOMAIN v |-> I(Trunc(v[i]))] ELSE v

\* porigin = np.full_like(ptlist, 0.0) takes the dtype of ptlist; row ipt is
\* then assigned origin + n3*offsetlist[iplanevec[ipt]]
PointOrigins(ptlist, ptdtype, origin, axis3, offsets, iplanevec) ==
    [ipt \in DOMAIN ptlist |->
        StoreAs(ptdtype, PlaneOrigin(origin, axis3, offsets, iplanevec[ipt]))]

\* ptdtype is the dtype numpy gives np.array(ptlist): "int" or "float"
convert_pt_xyz_to_axis1axis2(ptlist, ptdtype, origin, axis1, axis2, axis3, offsets, iplanevec) ==
    LET n1      == UnitAxis(axis1)
        n2      == UnitAxis(axis2)
        porigin == PointOrigins(ptlist, ptdtype, origin, axis3, offsets, iplanevec)
        dv      == [i \in DOMAIN ptlist |-> VSub(ptlist[i], porigin[i])]
    IN  \* (R @ dv.T).T[:, 0:2] with R = [n1, n2, n3]
        [i \in DOMAIN ptlist |-> <<Dot(n1, dv[i]), Dot(n2, dv[i])>>]

-----------------------------------------------------------------------------
(* Calls of the coordinate conversions *)

\* the longest batch of points of a modelled call
MaxPts == 2

Half == Rat(1, 2)

\* direction vectors of integer norm, axis-aligned and not, unit and not
Axis1Set == {V3(0, 1, 0), V3(0, 2, 0), V3(3, 4, 0)}
Axis2Set == {V3(0, 0, 1), V3(0, 3, 4)}
Axis3Set == {V3(1, 0, 0), V3(0, 0, 0)}
OriginSet == {V3(0, 0, 0), <<I(0), Half, I(-1)>>}
OffsetsSet == {[kind |-> "list", val |-> <<I(0), I(10)>>],
               [kind |-> "array", val |-> <<I(0), Half>>],
               [kind |-> "scalar", val |-> Half]}
NativePts == {<<I(2), I(3)>>, <<RNeg(Half), I(1)>>}
GlobalPts == {V3(0, 2, 3), V3(10, 2, 3), <<I(1), Half, I(0)>>}

SeqsUpTo(S, n) == UNION {[1..k -> S] : k \in 1..n}
AllInt(ptlist) == \A i \in DOMAIN ptlist : \A j \in DOMAIN ptlist[i] : IsInt(ptlist[i][j])
NPlanes(offsets) == Len(offsetlist(offsets))

CallIdle == [pc |-> "idle"]
BtsIdle == [pc |-> "idle"]
FileIdle == [exists |-> FALSE, isopen |-> FALSE, data |-> <<>>]

\* a caller holding points in native coordinates, about to convert them to XYZ
\* on plane iplane and back
InitA1A2 ==
    \E ptlist \in SeqsUpTo(NativePts, MaxPts), origin \in OriginSet,
       axis1 \in Axis1Set, axis2 \in Axis2Set, axis3 \in Axis3Set,
       offsets \in OffsetsSet :
      \E iplane \in 0..(NPlanes(offsets) - 1) :
        call = [pc |-> "start", pt_coords |-> "A1A2", ptlist |-> ptlist,
                ptdtype |-> "float", origin |-> origin, axis1 |-> axis1,
                axis2 |-> axis2, axis3 |-> axis3, offsets |-> offsets,
                iplanevec |-> [i \in DOMAIN ptlist |-> iplane],
                pt_xyz |-> <<>>, returnvec |-> <<>>]

\* a caller holding points in global coordinates, one plane index per point;
\* a list of integer coordinates becomes an integer array
InitXYZ ==
    \E ptlist \in SeqsUpTo(GlobalPts, MaxPts), origin \in OriginSet,
       axis1 \in Axis1Set, axis2 \in Axis2Set, axis3 \in Axis3Set,
       offsets \in OffsetsSet, ptdtype \in {"int", "float"} :
      \E iplanevec \in [DOMAIN ptlist -> 0..(NPlanes(offsets) - 1)] :
        /\ ptdtype = "int" => AllInt(ptlist)
        /\ call = [pc |-> "start", pt_coords |-> "XYZ", ptlist |-> ptlist,
                   ptdtype |-> ptdtype, origin |-> origin, axis1 |-> axis1,
                   axis2 |-> axis2, axis3 |-> axis3, offsets |-> offsets,
                   iplanevec |-> iplanevec,
                   pt_xyz |-> ptlist, returnvec |-> <<>>]

InitFrame == (InitA1A2 \/ InitXYZ) /\ bts = BtsIdle /\ file = FileIdle

\* convert_pt_axis1axis2_to_xyz(ptlist, ..., iplane); the result is a list of
\* float arrays
ToGlobal ==
    /\ call.pc = "start" /\ call.pt_coords = "A1A2"
    /\ call' = [call EXCEPT
                  !.pc = "global",
                  !.pt_xyz = convert_pt_axis1axis2_to_xyz(call.ptlist, call.origin,
                                 call.axis1, call.axis2, call.axis3, call.offsets,
                                 call.iplanevec[1])]
    /\ UNCHANGED <<bts, file>>

\* convert_pt_xyz_to_axis1axis2(pt_xyz, ..., iplanevec)
ToNative ==
    /\ \/ call.pc = "start" /\ call.pt_coords = "XYZ"
       \/ call.pc = "global"
    /\ call' = [call EXCEPT
                  !.pc = "done",
                  !.returnvec = convert_pt_xyz_to_axis1axis2(call.pt_xyz, call.ptdtype,
                                    call.origin, call.axis1, call.axis2, call.axis3,
                                    call.offsets, call.iplanevec)]
    /\ UNCHANGED <<bts, file>>

NextFrame == ToGlobal \/ ToNative

SpecFrame == InitFrame /\ [][NextFrame]_vars

-----------------------------------------------------------------------------
(* C1, C2: properties of the coordinate conversions *)

RoundTripDone == call.pc = "done" /\ call.pt_coords = "A1A2"
Orthogonal(a, b) == Dot(a, b).num = 0

\* C1 as stated: converting native points to XYZ on plane k and back on plane k
\* returns the points, for any nonzero axis1 and axis2
C1_RoundTripAnyAxes == RoundTripDone => call.returnvec = call.ptlist

\* C1 amended: converting native points to XYZ on plane k and back on plane k
\* returns the points whenever axis1 and axis2 are orthogonal, for any lengths
\* of the axes, any axis3, origin, offsets and plane
C1_RoundTripOrthogonal ==
    (RoundTripDone /\ Orthogonal(call.axis1, call.axis2))
        => call.returnvec = call.ptlist

\* a round trip on the second plane with an oblique, non-unit axis1
C1_Witness ==
    /\ RoundTripDone /\ Orthogonal(call.axis1, call.axis2)
    /\ call.axis1 = V3(3, 4, 0) /\ call.iplanevec[1] = 1
    /\ call.axis3 = V3(1, 0, 0) /\ Len(call.ptlist) = 2
    /\ call.returnvec = call.ptlist

\* the plane origin of point i, origin + axis3Unit*offsets[planeIndex[i]]
ExactOrigin(i) == PlaneOrigin(call.origin, call.axis3, call.offsets, call.iplanevec[i])

\* C2: every point of a batch of global points, given as integers or as reals,
\* is converted by subtracting exactly its own plane origin and projecting on
\* the unit axis1 and axis2
C2_PerPointOrigin ==
    (call.pc = "done" /\ call.pt_coords = "XYZ") =>
        \A i \in DOMAIN call.ptlist :
            call.returnvec[i] =
                <<Dot(UnitAxis(call.axis1), VSub(call.ptlist[i], ExactOrigin(i))),
                  Dot(UnitAxis(call.axis2), VSub(call.ptlist[i], ExactOrigin(i)))>>

\* the scenario of the specification: (0,2,3) on plane 0 and (10,2,3) on plane 1
\* in one batch both yield (2,3)
C2_Witness ==
    /\ call.pc = "done" /\ call.pt_coords = "XYZ"
    /\ call.ptlist = <<V3(0, 2, 3), V3(10, 2, 3)>> /\ call.iplanevec = <<0, 1>>
    /\ call.offsets.val = <<I(0), I(10)>> /\ call.origin = V3(0, 0, 0)
    /\ call.axis1 = V3(0, 1, 0) /\ call.axis2 = V3(0, 0, 1) /\ call.axis3 = V3(1, 0, 0)
    /\ call.returnvec = <<<<I(2), I(3)>>, <<I(2), I(3)>>>>

-----------------------------------------------------------------------------
(* postproengine/dataconverters.py: bts_write *)

intmin == -32768
intrng == 65535
\* the largest value of a signed 16-bit integer
intmax == 32767
\* len(info): 'Generated by TurbSimFile on dd-Mon-YYYY at HH:MM:SS.'
InfoLen == 52

\* the values of ts[k], an array of shape (nt, ny, nz)
GridValues(uk) ==
    UNION {UNION {{uk[it][iy][iz] : iz \in DOMAIN uk[it][iy]} : iy \in DOMAIN uk[it]}
              : it \in DOMAIN uk}
\* the values of tsTwr[k], an array of shape (nt, nTwr)
TwrValues(tk) == UNION {{tk[it][j] : j \in DOMAIN tk[it]} : it \in DOMAIN tk}
\* ndarray.min(), ndarray.max()
SetMin(S) == CHOOSE x \in S : \A y \in S : RLe(x, y)
SetMax(S) == CHOOSE x \in S : \A y \in S : RLe(y, x)

\* mutants: the tower series is left out of the range
all_min_gridonly(ts, tsTwr, nTwr, k) == SetMin(GridValues(ts[k]))
all_max_gridonly(ts, tsTwr, nTwr, k) == SetMax(GridValues(ts[k]))

all_min(ts, tsTwr, nTwr, k) ==
    IF nTwr > 0
    THEN RMin(SetMin(GridValues(ts[k])), SetMin(TwrValues(tsTwr[k])))
    ELSE SetMin(GridValues(ts[k]))
all_max(ts, tsTwr, nTwr, k) ==
    IF nTwr > 0
    THEN RMax(SetMax(GridValues(ts[k])), SetMax(TwrValues(tsTwr[k])))
    ELSE SetMax(GridValues(ts[k]))

\* a mutant: a constant component gets scale 0
Scale_zero(amin, amax) ==
    F32(IF amin = amax THEN I(0) ELSE RDiv(I(intrng), RSub(amax, amin)))

\* scl[k], an element of a float32 array
Scale(amin, amax) ==
    F32(IF amin = amax THEN I(1) ELSE RDiv(I(intrng), RSub(amax, amin)))
\* off[k], an element of a float32 array, from the stored scl[k]
Offset(sclk, amin) == F32(RSub(I(intmin), RMul(sclk, amin)))

InInt16(i) == intmin <= i /\ i <= intmax
\* astype(np.int16) of a float64: the fraction is dropped; a value outside the
\* 16-bit range is undefined in C and wraps or saturates, depending on the build
AsInt16(x, cast) ==
    LET i == Trunc(x)
    IN  IF InInt16(i) THEN i
        ELSE IF cast = "wrap" THEN ((i - intmin) % (intrng + 1)) + intmin
        ELSE IF i < intmin THEN intmin ELSE intmax
\* the float64 value ts*scl[k] + off[k]
Scaled(v, sclk, offk) == RAdd(RMul(v, sclk), offk)
Quantize(v, sclk, offk, cast) == AsInt16(Scaled(v, sclk, offk), cast)

\* np.around(x, decimals=7)
Round7(x) == Rat(RoundHalfEven(RMul(x, I(10000000))), 10000000)

-----------------------------------------------------------------------------
(* The staged turbulence box handed to bts_write *)

\* the largest number of time steps of a modelled box
MaxNt == 2
\* the largest number of tower points of a modelled box
MaxTwr == 2

\* (ny, nz) of the modelled boxes
GridShapes == {<<2, 2>>, <<2, 1>>, <<1, 2>>}

\* the sample values of one velocity component, repeated cyclically over the
\* grid: constant components, ranges whose scale is and is not a float32, and a
\* narrow range far from zero
Palettes0 == {<<I(5)>>, <<Rat(15, 2)>>, <<Rat(1, 512)>>, <<Rat(3, 512)>>,
              <<I(1), I(8)>>, <<I(0), I(3), I(1)>>, <<I(257), I(258)>>}
Palettes1 == {<<I(-1), Half, I(2)>>}
Palette2 == <<I(0), I(3)>>
PalAt(pal, n) == pal[(n % Len(pal)) + 1]
PalMin(pal) == SetMin({pal[i] : i \in DOMAIN pal})
PalMax(pal) == SetMax({pal[i] : i \in DOMAIN pal})

\* tower samples of a component: equal to a grid sample ("inside"), or
\* alternately below and above every grid sample ("outside")
TowerSample(kind, pal, n) ==
    IF kind = "inside" THEN pal[1]
    ELSE IF n % 2 = 0 THEN RSub(PalMin(pal), I(1)) ELSE RAdd(PalMax(pal), I(1))

NoTwr == [kind |-> "none", n |-> 0]
TowerSet == {NoTwr} \cup [kind : {"inside", "outside"}, n : 1..MaxTwr]

\* the ID of the box: absent, one of the two format variants, or a value that
\* does not fit the int16 header field
IDSet == {[has |-> FALSE, val |-> 0]} \cup [has : {TRUE}, val : {8, 40000}]

StagedBox(nt, ny, nz, pals, twr, id) ==
    [u |-> [k \in 1..3 |-> [it \in 1..nt |-> [iy \in 1..ny |-> [iz \in 1..nz |->
                PalAt(pals[k], (it - 1) * ny * nz + (iy - 1) * nz + (iz - 1))]]]],
     ushape |-> <<3, nt, ny, nz>>,
     hasTwr |-> twr.kind # "none",
     uTwr |-> [k \in 1..3 |-> [it \in 1..nt |-> [j \in 1..twr.n |->
                TowerSample(twr.kind, pals[k], (it - 1) + (j - 1))]]],
     twrshape |-> <<3, nt, twr.n>>,
     hasID |-> id.has,
     ID |-> id.val,
     y |-> [iy \in 1..ny |-> RSub(I(iy - 1), Rat(ny - 1, 2))],
     z |-> [iz \in 1..nz |-> I(10 + 2 * (iz - 1))],
     t |-> [it \in 1..nt |-> Rat(it - 1, 4)],
     zRef |-> I(11),
     uRef |-> Rat(15, 2)]

NoLocals == [nt |-> 0, ny |-> 0, nz |-> 0, nTwr |-> 0, ID |-> 0, cast |-> "",
             scl |-> <<>>, off |-> <<>>, out |-> <<>>, outTwr |-> <<>>,
             hdr |-> <<>>, h |-> 0, it |-> 0, blk |-> "", caught |-> FALSE]

NoExec == [pc |-> "idle"]
NoBox == [u |-> <<>>]

\* the output path before the run: absent, or a file written earlier
OldData == <<[fmt |-> "s", val |-> 1]>>
FileSet == {FileIdle, [exists |-> TRUE, isopen |-> FALSE, data |-> OldData]}

\* a call of bts_write on a staged box
InitBtsWrite ==
    \E nt \in 0..MaxNt, shape \in GridShapes, p0 \in Palettes0, p1 \in Palettes1,
       twr \in TowerSet, id \in IDSet, f \in FileSet :
        /\ bts = [entry |-> "bts_write", pc |-> "bts_write", err |-> "",
                  db |-> NoExec, actiondict |-> NoExec, ex |-> NoExec,
                  ts |-> StagedBox(nt, shape[1], shape[2], <<p0, p1, Palette2>>, twr, id),
                  w |-> NoLocals]
        /\ file = f
        /\ call = CallIdle

-----------------------------------------------------------------------------
(* bts_write, step by step *)

Raised(e) == bts' = [bts EXCEPT !.pc = "raised", !.err = e]
\* leaving the with block closes the file, on return and on an exception
Closed(f) == [f EXCEPT !.isopen = FALSE]
Tok(fmt, val) == [fmt |-> fmt, val |-> val]

\* lines 110-118: the shapes of u and uTwr, the defaults of uTwr and ID
Prologue ==
    /\ bts.pc = "bts_write"
    /\ bts' = [bts EXCEPT
                 !.pc = "quantize",
                 !.w.nt = bts.ts.ushape[2],
                 !.w.ny = bts.ts.ushape[3],
                 !.w.nz = bts.ts.ushape[4],
                 !.w.nTwr = IF bts.ts.hasTwr THEN bts.ts.twrshape[3] ELSE 0,
                 !.w.ID = IF bts.ts.hasID THEN bts.ts.ID ELSE 7]
    /\ UNCHANGED <<file, call>>

\* tsTwr: btsdict['uTwr'], np.zeros((3,nt,0)) when the key is absent
tsTwr == IF bts.ts.hasTwr THEN bts.ts.uTwr
         ELSE [k \in 1..3 |-> [it \in 1..bts.w.nt |-> <<>>]]

sclOf(k) == Scale(all_min(bts.ts.u, tsTwr, bts.w.nTwr, k),
                  all_max(bts.ts.u, tsTwr, bts.w.nTwr, k))
offOf(k) == Offset(sclOf(k), all_min(bts.ts.u, tsTwr, bts.w.nTwr, k))

\* some sample of the grid or of the tower scales to a value outside int16
SomeOutOfRange(scl, off) ==
    \E k \in 1..3 :
        \E v \in GridValues(bts.ts.u[k]) \cup TwrValues(tsTwr[k]) :
            ~InInt16(Trunc(Scaled(v, scl[k], off[k])))

\* lines 119-138: min() of an empty array raises ValueError
QuantizeRaises ==
    /\ bts.pc = "quantize"
    /\ bts.w.nt * bts.w.ny * bts.w.nz = 0
    /\ Raised("ValueError")
    /\ UNCHANGED <<file, call>>

\* lines 119-138: the loop over the three components
QuantizeAll ==
    /\ bts.pc = "quantize"
    /\ bts.w.nt * bts.w.ny * bts.w.nz > 0
    /\ LET scl == [k \in 1..3 |-> sclOf(k)]
           off == [k \in 1..3 |-> offOf(k)]
       IN  \E cast \in (IF SomeOutOfRange(scl, off) THEN {"wrap", "saturate"} ELSE {"wrap"}) :
             bts' = [bts EXCEPT
                   !.pc = "fields",
                   !.w.cast = cast,
                   !.w.scl = scl,
                   !.w.off = off,
                   !.w.out = [k \in 1..3 |-> [it \in 1..bts.w.nt |->
                                [iy \in 1..bts.w.ny |-> [iz \in 1..bts.w.nz |->
                                   Quantize(bts.ts.u[k][it][iy][iz], scl[k], off[k], cast)]]]],
                   !.w.outTwr = [k \in 1..3 |-> [it \in 1..bts.w.nt |->
                                   [j \in 1..bts.w.nTwr |->
                                      Quantize(tsTwr[k][it][j], scl[k], off[k], cast)]]]]
    /\ UNCHANGED <<file, call>>

\* lines 139-148: z[1], y[1], t[1] need two entries each
FieldsRaise ==
    /\ bts.pc = "fields"
    /\ Len(bts.ts.z) < 2 \/ Len(bts.ts.y) < 2 \/ Len(bts.ts.t) < 2
    /\ Raised("IndexError")
    /\ UNCHANGED <<file, call>>

\* lines 139-148: dz, dy, dt, uHub, zHub, z0 in the order of the header
HeaderFields ==
    /\ bts.pc = "fields"
    /\ Len(bts.ts.z) >= 2 /\ Len(bts.ts.y) >= 2 /\ Len(bts.ts.t) >= 2
    /\ bts' = [bts EXCEPT
                 !.pc = "open",
                 !.w.hdr = <<RSub(bts.ts.z[2], bts.ts.z[1]),
                             RSub(bts.ts.y[2], bts.ts.y[1]),
                             Round7(RSub(bts.ts.t[2], bts.ts.t[1])),
                             bts.ts.uRef, bts.ts.zRef, bts.ts.z[1]>>]
    /\ UNCHANGED <<file, call>>

\* line 150: open(filename, mode='wb') creates or truncates the file
OpenFile ==
    /\ bts.pc = "open"
    /\ bts' = [bts EXCEPT !.pc = "header", !.w.h = 1]
    /\ file' = [exists |-> TRUE, isopen |-> TRUE, data |-> <<>>]
    /\ UNCHANGED call

\* line 150: the path cannot be opened for writing
OpenRaises ==
    /\ bts.pc = "open"
    /\ Raised("OSError")
    /\ UNCHANGED <<file, call>>

\* the bytes of the h-th write of the header, as fields of the struct formats
HeaderPart(h) ==
    CASE h = 1 -> <<Tok("h", bts.w.ID), Tok("l", bts.w.nz), Tok("l", bts.w.ny),
                    Tok("l", bts.w.nTwr), Tok("l", bts.w.nt)>>
      [] h = 2 -> [i \in 1..6 |-> Tok("f", F32(bts.w.hdr[i]))]
      [] h = 3 -> <<Tok("f", bts.w.scl[1]), Tok("f", bts.w.off[1]),
                    Tok("f", bts.w.scl[2]), Tok("f", bts.w.off[2]),
                    Tok("f", bts.w.scl[3]), Tok("f", bts.w.off[3])>>
      [] h = 4 -> <<Tok("l", InfoLen)>>
      [] h = 5 -> <<Tok("s", InfoLen)>>

\* struct.pack('<h4l', ...) takes an ID in the range of a short
Packable(h) == h = 1 => InInt16(bts.w.ID)

\* lines 151-155: one f.write of the header
WriteHeader ==
    /\ bts.pc = "header" /\ Packable(bts.w.h)
    /\ file' = [file EXCEPT !.data = file.data \o HeaderPart(bts.w.h)]
    /\ bts' = IF bts.w.h < 5
              THEN [bts EXCEPT !.w.h = bts.w.h + 1]
              ELSE [bts EXCEPT !.pc = "payload", !.w.it = 0, !.w.blk = "grid"]
    /\ UNCHANGED call

\* line 151: struct.error, raised inside the with block
PackRaises ==
    /\ bts.pc = "header" /\ ~Packable(bts.w.h)
    /\ Raised("struct.error")
    /\ file' = Closed(file)
    /\ UNCHANGED call

\* lines 151-155: f.write fails (the device is full, the write is interrupted)
HeaderWriteRaises ==
    /\ bts.pc = "header" /\ Packable(bts.w.h)
    /\ Raised("OSError")
    /\ file' = Closed(file)
    /\ UNCHANGED call

\* out[:,it,:,:].tobytes(order='F'): the first index runs fastest
GridBlock(it) ==
    [n \in 1..(3 * bts.w.ny * bts.w.nz) |->
        Tok("h", bts.w.out[((n - 1) % 3) + 1][it + 1]
                          [(((n - 1) \div 3) % bts.w.ny) + 1]
                          [((n - 1) \div (3 * bts.w.ny)) + 1])]
\* outTwr[:,it,:].tobytes(order='F')
TwrBlock(it) ==
    [n \in 1..(3 * bts.w.nTwr) |->
        Tok("h", bts.w.outTwr[((n - 1) % 3) + 1][it + 1][((n - 1) \div 3) + 1])]

WriteBlock(loop) ==
    /\ bts.pc = loop /\ bts.w.it < bts.w.nt
    /\ IF bts.w.blk = "grid"
       THEN /\ file' = [file EXCEPT !.data = file.data \o GridBlock(bts.w.it)]
            /\ bts' = [bts EXCEPT !.w.blk = "twr"]
       ELSE /\ file' = [file EXCEPT !.data = file.data \o TwrBlock(bts.w.it)]
            /\ bts' = [bts EXCEPT !.w.blk = "grid", !.w.it = bts.w.it + 1]
    /\ UNCHANGED call

\* lines 157-159: one f.write of the loop inside try
WritePayload == WriteBlock("payload")

\* lines 160-161: any exception of the loop inside try is caught, and the
\* second loop starts again from the first time step
PayloadRaises ==
    /\ bts.pc = "payload" /\ bts.w.it < bts.w.nt
    /\ bts' = [bts EXCEPT !.pc = "fallback", !.w.it = 0, !.w.blk = "grid",
                          !.w.caught = TRUE]
    /\ UNCHANGED <<file, call>>

\* lines 161-163: one f.write of the loop of the except branch
WriteFallback == WriteBlock("fallback")

\* lines 161-163: an exception of the second loop leaves bts_write (a failed
\* f.write, or tostring missing from the installed numpy)
FallbackRaises ==
    /\ bts.pc = "fallback" /\ bts.w.it < bts.w.nt
    /\ Raised("OSError")
    /\ file' = Closed(file)
    /\ UNCHANGED call

\* the end of the with block and of bts_write
Return ==
    /\ bts.pc \in {"payload", "fallback"} /\ bts.w.it = bts.w.nt
    /\ bts' = [bts EXCEPT !.pc = "returned"]
    /\ file' = Closed(file)
    /\ UNCHANGED call

NextBtsWrite ==
    \/ Prologue \/ QuantizeRaises \/ QuantizeAll \/ FieldsRaise \/ HeaderFields
    \/ OpenFile \/ OpenRaises \/ WriteHeader \/ PackRaises \/ HeaderWriteRaises
    \/ WritePayload \/ PayloadRaises \/ WriteFallback \/ FallbackRaises \/ Return

-----------------------------------------------------------------------------
(* The dataset and the inputs of convert_to_bts.execute *)

\* the sampled planes: the three axis attributes, and the unit directions
\* along which the last, the middle and the first array index advance
Orientations ==
    {\* y-z planes stacked along x
     [axis1 |-> V3(0, 3, 0), axis2 |-> V3(0, 0, 3), axis3 |-> V3(1, 0, 0),
      d1 |-> V3(0, 1, 0), d2 |-> V3(0, 0, 1), d3 |-> V3(1, 0, 0)],
     \* the same planes with axis1 vertical and axis2 lateral
     [axis1 |-> V3(0, 0, 3), axis2 |-> V3(0, 3, 0), axis3 |-> V3(1, 0, 0),
      d1 |-> V3(0, 0, 1), d2 |-> V3(0, 1, 0), d3 |-> V3(1, 0, 0)],
     \* x-z planes stacked along y
     [axis1 |-> V3(3, 0, 0), axis2 |-> V3(0, 0, 3), axis3 |-> V3(0, 1, 0),
      d1 |-> V3(1, 0, 0), d2 |-> V3(0, 0, 1), d3 |-> V3(0, 1, 0)],
     \* planes tilted about x: axis1 and axis2 both lead with y
     [axis1 |-> V3(0, 3, 0), axis2 |-> V3(0, 3, 3), axis3 |-> V3(1, 0, 0),
      d1 |-> V3(0, 1, 0), d2 |-> V3(0, 0, 1), d3 |-> V3(1, 0, 0)],
     \* y-z planes of a dataset without a normal direction
     [axis1 |-> V3(0, 3, 0), axis2 |-> V3(0, 0, 3), axis3 |-> V3(0, 0, 0),
      d1 |-> V3(0, 1, 0), d2 |-> V3(0, 0, 1), d3 |-> V3(1, 0, 0)]}

\* shapes of the coordinate and field arrays: [plane, row, column]
DbShapes == {<<1, 4, 4>>, <<2, 2, 2>>, <<2, 0, 2>>}

\* node (i0, i1, i2), counted from 0, of a grid of unit spacing
Node(o, i0, i1, i2) ==
    VAdd(VAdd(VAdd(V3(0, -1, 0), VScale(o.d1, I(i2))), VScale(o.d2, I(i1))),
         VScale(o.d3, I(i0)))

Array3(shape, F(_, _, _)) ==
    [i0 \in 1..shape[1] |-> [i1 \in 1..shape[2] |-> [i2 \in 1..shape[3] |->
        F(i0 - 1, i1 - 1, i2 - 1)]]]

\* the velocity at a node at the n-th time: uniform (7.5, 0, 0), or varying
\* with every index
FieldValue(pattern, comp, n, i0, i1, i2) ==
    IF pattern = "uniform"
    THEN (IF comp = 1 THEN Rat(15, 2) ELSE I(0))
    ELSE CASE comp = 1 -> I(1 + i0 + i1 + 2 * i2 + n)
           [] comp = 2 -> Rat(i2 - i1, 2)
           [] comp = 3 -> I(0)

\* the time step number of the n-th stored time
StepOf(n) == 10 * n

Dataset(o, shape, nt, pattern) ==
    LET Field(comp) ==
          [tval \in {StepOf(n) : n \in 0..(nt - 1)} |->
              Array3(shape, LAMBDA i0, i1, i2 :
                               FieldValue(pattern, comp, tval \div 10, i0, i1, i2))]
    IN  [shape |-> shape,
         x |-> Array3(shape, LAMBDA i0, i1, i2 : Node(o, i0, i1, i2)[1]),
         y |-> Array3(shape, LAMBDA i0, i1, i2 : Node(o, i0, i1, i2)[2]),
         z |-> Array3(shape, LAMBDA i0, i1, i2 : Node(o, i0, i1, i2)[3]),
         axis1 |-> o.axis1, axis2 |-> o.axis2, axis3 |-> o.axis3,
         times |-> [n \in 1..nt |-> Rat(n - 1, 4)],
         timesteps |-> [n \in 1..nt |-> StepOf(n - 1)],
         velocityx |-> Field(1), velocityy |-> Field(2), velocityz |-> Field(3)]

\* hub locations (yhh, zhh): on a node, inside a cell, outside every grid
HubSet == {<<I(0), I(1)>>, <<RNeg(Half), Half>>, <<I(50), I(1)>>}

\* a run of convert_to_bts.execute on a loaded dataset
InitExecute ==
    \E o \in Orientations, shape \in DbShapes, nt \in 0..MaxNt,
       pattern \in {"uniform", "varying"}, hub \in HubSet,
       id \in {8, 40000}, iplane \in 0..1, f \in FileSet :
        /\ bts = [entry |-> "execute", pc |-> "execute", err |-> "",
                  db |-> Dataset(o, shape, nt, pattern),
                  actiondict |-> [iplane |-> iplane, yhh |-> hub[1], zhh |-> hub[2],
                                  ID |-> id],
                  ex |-> [flow_index |-> <<>>, streamwise_index |-> 0,
                          lateral_index |-> 0, vertical_index |-> 0,
                          y |-> <<>>, z |-> <<>>, nt |-> 0, ny |-> 0, nz |-> 0,
                          titer |-> 0, u |-> <<<<>>, <<>>, <<>>>>, uRef |-> <<>>],
                  ts |-> NoBox,
                  w |-> NoLocals]
        /\ file = f
        /\ call = CallIdle

-----------------------------------------------------------------------------
(* convert_to_bts.execute, step by step *)

Sum3(v) == RAdd(RAdd(v[1], v[2]), v[3])
\* np.nonzero(v)[0][0]: the position, from 0, of the first nonzero component
FirstNonzero(v) == (CHOOSE i \in 1..3 : v[i].num # 0 /\ \A j \in 1..(i - 1) : v[j].num = 0) - 1

\* lines 178-196: the leading direction of each axis whose components do not
\* sum to zero, -1 for the others
LeadingIndex(axis) == IF Sum3(axis).num # 0 THEN FirstNonzero(axis) ELSE -1

\* a mutant: the undetermined entries are not filled in
flow_index_unfilled(db) ==
    <<LeadingIndex(db.axis1), LeadingIndex(db.axis2), LeadingIndex(db.axis3)>>

\* lines 178-199: the entries left at -1 are filled in, in order and in place,
\* from the two entries before them (indices -1 and -2 wrap around)
flow_index(db) ==
    LET f0 == <<LeadingIndex(db.axis1), LeadingIndex(db.axis2), LeadingIndex(db.axis3)>>
        f1 == IF f0[1] = -1 THEN [f0 EXCEPT ![1] = 3 - (f0[3] + f0[2])] ELSE f0
        f2 == IF f1[2] = -1 THEN [f1 EXCEPT ![2] = 3 - (f1[1] + f1[3])] ELSE f1
    IN  IF f2[3] = -1 THEN [f2 EXCEPT ![3] = 3 - (f2[2] + f2[1])] ELSE f2

Has(f, v) == \E i \in 1..3 : f[i] = v
\* np.where(f == v)[0][0], from 0
Where(f, v) == (CHOOSE i \in 1..3 : f[i] = v /\ \A j \in 1..(i - 1) : f[j] # v) - 1

\* lines 174-203
ResolveAxes ==
    /\ bts.pc = "execute"
    /\ LET f == flow_index(bts.db)
       IN  IF Has(f, 0) /\ Has(f, 1) /\ Has(f, 2)
           THEN bts' = [bts EXCEPT
                          !.pc = "coords",
                          !.ex.flow_index = f,
                          !.ex.streamwise_index = 2 - Where(f, 0),
                          !.ex.lateral_index = 2 - Where(f, 1),
                          !.ex.vertical_index = 2 - Where(f, 2)]
           ELSE Raised("IndexError")
    /\ UNCHANGED <<file, call>>

\* the element of a 3-D array whose index along dimension streamwise_index is
\* is_, along lateral_index il, along vertical_index iv (all from 0)
At(arr, ex, is_, il, iv) ==
    LET idx == [d \in 0..2 |-> IF d = ex.streamwise_index THEN is_
                               ELSE IF d = ex.lateral_index THEN il ELSE iv]
    IN  arr[idx[0] + 1][idx[1] + 1][idx[2] + 1]

\* lines 205-232: the coordinate vectors; index 0 of an empty dimension and
\* x[iplane] beyond the planes raise IndexError
ExtractCoords ==
    /\ bts.pc = "coords"
    /\ LET ex == bts.ex
           n  == [d \in 0..2 |-> bts.db.shape[d + 1]]
       IN  IF n[0] = 0 \/ n[1] = 0 \/ n[2] = 0
              \/ bts.actiondict.iplane >= n[ex.streamwise_index]
           THEN Raised("IndexError")
           ELSE bts' = [bts EXCEPT
                          !.pc = "loop",
                          !.ex.y = [iy \in 1..n[ex.lateral_index] |->
                                       At(bts.db.y, ex, 0, iy - 1, 0)],
                          !.ex.z = [iz \in 1..n[ex.vertical_index] |->
                                       At(bts.db.z, ex, 0, 0, iz - 1)],
                          !.ex.nt = Len(bts.db.times),
                          !.ex.ny = n[ex.lateral_index],
                          !.ex.nz = n[ex.vertical_index],
                          !.ex.titer = 0]
    /\ UNCHANGED <<file, call>>

\* a mutant: the lateral and the vertical index change places
PlaneSlice_transposed(field, ex, iplane) ==
    [iy \in 1..ex.ny |-> [iz \in 1..ex.nz |-> At(field, ex, iplane, iz - 1, iy - 1)]]
\* np.transpose(field, permutation)[iplane,:,:]
PlaneSlice(field, ex, iplane) ==
    [iy \in 1..ex.ny |-> [iz \in 1..ex.nz |-> At(field, ex, iplane, iy - 1, iz - 1)]]

\* the cell of an ascending grid that holds x: searchsorted(grid, x) - 1,
\* clipped to the cells of the grid (from 1)
CellOf(grid, x) ==
    LET below == {i \in DOMAIN grid : RLt(grid[i], x)}
        i     == IF below = {} THEN 1 ELSE CHOOSE m \in below : \A j \in below : j <= m
    IN  IF i > Len(grid) - 1 THEN Len(grid) - 1 ELSE i
InBounds(grid, x) == RLe(grid[1], x) /\ RLe(x, grid[Len(grid)])
\* the weight of the upper node of the cell; 0 on a grid of one point
UpperWeight(grid, i, x) ==
    IF Len(grid) < 2 THEN I(0)
    ELSE RDiv(RSub(x, grid[i]), RSub(grid[i + 1], grid[i]))
Upper(grid, i) == IF Len(grid) < 2 THEN 1 ELSE i + 1
Lower(grid, i) == IF Len(grid) < 2 THEN 1 ELSE i

\* RegularGridInterpolator((y, z), values)((yloc, zloc)), method linear
Interpolate(y, z, values, yloc, zloc) ==
    LET i  == CellOf(y, yloc)
        j  == CellOf(z, zloc)
        wy == UpperWeight(y, i, yloc)
        wz == UpperWeight(z, j, zloc)
        one == I(1)
    IN  RAdd(RAdd(RMul(RMul(RSub(one, wy), RSub(one, wz)), values[Lower(y, i)][Lower(z, j)]),
                  RMul(RMul(RSub(one, wy), wz), values[Lower(y, i)][Upper(z, j)])),
             RAdd(RMul(RMul(wy, RSub(one, wz)), values[Upper(y, i)][Lower(z, j)]),
                  RMul(RMul(wy, wz), values[Upper(y, i)][Upper(z, j)])))

\* lines 233-239: one pass of the loop over the time steps; a hub location
\* outside the grid raises ValueError
ExtractStep ==
    /\ bts.pc = "loop"
    /\ bts.ex.titer < Len(bts.db.timesteps)
    /\ LET ex   == bts.ex
           tval == bts.db.timesteps[ex.titer + 1]
           ip   == bts.actiondict.iplane
           ux   == PlaneSlice(bts.db.velocityx[tval], ex, ip)
           uy   == PlaneSlice(bts.db.velocityy[tval], ex, ip)
           uz   == PlaneSlice(bts.db.velocityz[tval], ex, ip)
       IN  IF InBounds(ex.y, bts.actiondict.yhh) /\ InBounds(ex.z, bts.actiondict.zhh)
           THEN bts' = [bts EXCEPT
                          !.ex.titer = ex.titer + 1,
                          !.ex.u = <<Append(ex.u[1], ux), Append(ex.u[2], uy),
                                     Append(ex.u[3], uz)>>,
                          !.ex.uRef = Append(ex.uRef,
                                         Interpolate(ex.y, ex.z, ux,
                                                     bts.actiondict.yhh,
                                                     bts.actiondict.zhh))]
           ELSE Raised("ValueError")
    /\ UNCHANGED <<file, call>>

RECURSIVE SumSeq(_)
SumSeq(q) == IF q = <<>> THEN I(0) ELSE RAdd(q[1], SumSeq(Tail(q)))
\* a mutant: the sum of the samples is not divided by their number
Mean_total(q) == IF q = <<>> THEN NaN ELSE SumSeq(q)
\* np.mean
Mean(q) == IF q = <<>> THEN NaN ELSE RDiv(SumSeq(q), I(Len(q)))

\* lines 242-252: the staged box and the call of bts_write (no tower is staged)
Stage ==
    /\ bts.pc = "loop"
    /\ bts.ex.titer = Len(bts.db.timesteps)
    /\ LET ex == bts.ex
       IN  bts' = [bts EXCEPT
                     !.pc = "bts_write",
                     !.ts = [u |-> ex.u,
                             ushape |-> <<3, ex.nt, ex.ny, ex.nz>>,
                             hasTwr |-> FALSE, uTwr |-> <<>>, twrshape |-> <<>>,
                             hasID |-> TRUE, ID |-> bts.actiondict.ID,
                             y |-> [iy \in 1..ex.ny |-> RSub(ex.y[iy], Mean(ex.y))],
                             z |-> ex.z,
                             t |-> [n \in 1..ex.nt |-> Round7(bts.db.times[n])],
                             zRef |-> bts.actiondict.zhh,
                             uRef |-> Mean(ex.uRef)]]
    /\ UNCHANGED <<file, call>>

NextExecute == ResolveAxes \/ ExtractCoords \/ ExtractStep \/ Stage

InitBts == InitBtsWrite \/ InitExecute
NextBts == NextExecute \/ NextBtsWrite
SpecBts == InitBts /\ [][NextBts]_vars

-----------------------------------------------------------------------------
(* C3-C10: properties of bts_write and convert_to_bts.execute *)

\* the loop of lines 127-138 has run
Quantized == bts.w.scl # <<>>
StagedNt == bts.ts.ushape[2]
StagedNy == bts.ts.ushape[3]
StagedNz == bts.ts.ushape[4]
StagedNTwr == IF bts.ts.hasTwr THEN bts.ts.twrshape[3] ELSE 0
GridPoints == (1..StagedNt) \X (1..StagedNy) \X (1..StagedNz)
TwrPoints == (1..StagedNt) \X (1..StagedNTwr)
\* the samples of component k: the whole grid series and the whole tower series
Pooled(k) ==
    GridValues(bts.ts.u[k])
        \cup (IF StagedNTwr > 0 THEN TwrValues(bts.ts.uTwr[k]) ELSE {})
\* the float64 value scaled for storage, of a grid and of a tower sample
GridScaled(k, p) == Scaled(bts.ts.u[k][p[1]][p[2]][p[3]], bts.w.scl[k], bts.w.off[k])
TwrScaled(k, q) == Scaled(bts.ts.uTwr[k][q[1]][q[2]], bts.w.scl[k], bts.w.off[k])
GridStored(k, p) == bts.w.out[k][p[1]][p[2]][p[3]]
TwrStored(k, q) == bts.w.outTwr[k][q[1]][q[2]]

\* C3: for each component, min and max are taken over the grid series pooled
\* with the tower series; the scale (a float32) is 1 when max = min and
\* 65535/(max-min) otherwise; the offset (a float32) is -32768 - scale*min; the
\* grid and the tower samples are stored with that one scale and offset
C3_PooledScaleOffset ==
    Quantized =>
        \A k \in 1..3 :
            LET mn == SetMin(Pooled(k))
                mx == SetMax(Pooled(k))
            IN  /\ bts.w.scl[k] = F32(IF mx = mn THEN I(1)
                                      ELSE RDiv(I(65535), RSub(mx, mn)))
                /\ bts.w.off[k] = F32(RSub(I(-32768), RMul(bts.w.scl[k], mn)))
                /\ \A p \in GridPoints :
                       GridStored(k, p) = AsInt16(GridScaled(k, p), bts.w.cast)
                /\ \A q \in TwrPoints :
                       TwrStored(k, q) = AsInt16(TwrScaled(k, q), bts.w.cast)

\* a box whose tower samples lie below the grid samples, quantized
C3_Witness ==
    /\ Quantized /\ StagedNTwr > 0
    /\ RLt(SetMin(TwrValues(bts.ts.uTwr[1])), SetMin(GridValues(bts.ts.u[1])))
    /\ bts.w.scl[1] # I(1)

\* C4: every stored sample of the grid and of the tower is
\* round(value*scale + offset), the nearest integer
C4_RoundToNearest ==
    Quantized =>
        \A k \in 1..3 :
            /\ \A p \in GridPoints : GridStored(k, p) = RoundHalfEven(GridScaled(k, p))
            /\ \A q \in TwrPoints : TwrStored(k, q) = RoundHalfEven(TwrScaled(k, q))

\* a quantized box with a sample that scales to a value between two integers
C4_Witness ==
    Quantized /\ \E k \in 1..3 : \E p \in GridPoints : ~IsInt(GridScaled(k, p))

\* C5: for a component whose samples are not all equal, every sample scales to
\* a value within [-32768, 32767], the minimum is stored as -32768 and the
\* maximum as 32767
C5_QuantizationBounds ==
    Quantized =>
        \A k \in 1..3 :
            LET mn == SetMin(Pooled(k))
                mx == SetMax(Pooled(k))
            IN  mn # mx =>
                  /\ \A p \in GridPoints :
                       /\ InInt16(Trunc(GridScaled(k, p)))
                       /\ bts.ts.u[k][p[1]][p[2]][p[3]] = mn => GridStored(k, p) = -32768
                       /\ bts.ts.u[k][p[1]][p[2]][p[3]] = mx => GridStored(k, p) = 32767
                  /\ \A q \in TwrPoints :
                       /\ InInt16(Trunc(TwrScaled(k, q)))
                       /\ bts.ts.uTwr[k][q[1]][q[2]] = mn => TwrStored(k, q) = -32768
                       /\ bts.ts.uTwr[k][q[1]][q[2]] = mx => TwrStored(k, q) = 32767

\* a quantized box with a component that is not constant
C5_Witness ==
    Quantized /\ SetMin(Pooled(1)) # SetMax(Pooled(1))

\* the stored integers of component k, of the grid and of the tower
StoredOf(k) ==
    {GridStored(k, p) : p \in GridPoints} \cup {TwrStored(k, q) : q \in TwrPoints}
\* (stored - offset)/scale
Decoded(k, stored) == RDiv(RSub(I(stored), bts.w.off[k]), bts.w.scl[k])
\* quantization raises only on an empty box
QuantizationFailsOnlyWhenEmpty ==
    (bts.pc = "raised" /\ bts.err = "ValueError" /\ bts.ts # NoBox)
        => StagedNt * StagedNy * StagedNz = 0

OneStepUniformRun ==
    /\ bts.entry = "execute"
    /\ bts.db.shape = <<1, 4, 4>>
    /\ bts.db.axis1 = V3(0, 3, 0) /\ bts.db.axis2 = V3(0, 0, 3)
    /\ Len(bts.db.timesteps) = 1
    /\ bts.db.velocityx[StepOf(0)][1][1][1] = Rat(15, 2)
    /\ bts.actiondict.iplane = 0 /\ bts.actiondict.ID = 8
    /\ bts.actiondict.yhh = I(0) /\ bts.actiondict.zhh = I(1)

\* C7: on the 4x4 y-z grid with one time step and streamwise velocity 7.5
\* everywhere, execute raises nothing of its own (only the file system can make
\* it fail), and the file it writes has scale 1 for the streamwise component,
\* equal streamwise samples and uRef = 7.5
C7_OneStepUniformBox ==
    OneStepUniformRun =>
        /\ bts.pc = "raised" => bts.err = "OSError"
        /\ bts.pc = "returned" =>
             /\ file.data[12] = Tok("f", I(1))
             /\ Cardinality(StoredOf(1)) = 1
             /\ file.data[9] = Tok("f", Rat(15, 2))

\* the scenario of C7, staged and quantized
C7_Witness ==
    /\ OneStepUniformRun /\ Quantized
    /\ bts.w.scl[1] = I(1) /\ Cardinality(StoredOf(1)) = 1
    /\ bts.ts.uRef = Rat(15, 2)

\* the header of the staged box, field by field
HeaderOfBox ==
    <<Tok("h", IF bts.ts.hasID THEN bts.ts.ID ELSE 7),
      Tok("l", StagedNz), Tok("l", StagedNy), Tok("l", StagedNTwr), Tok("l", StagedNt),
      Tok("f", F32(RSub(bts.ts.z[2], bts.ts.z[1]))),
      Tok("f", F32(RSub(bts.ts.y[2], bts.ts.y[1]))),
      Tok("f", F32(Round7(RSub(bts.ts.t[2], bts.ts.t[1])))),
      Tok("f", F32(bts.ts.uRef)), Tok("f", F32(bts.ts.zRef)), Tok("f", F32(bts.ts.z[1])),
      Tok("f", bts.w.scl[1]), Tok("f", bts.w.off[1]),
      Tok("f", bts.w.scl[2]), Tok("f", bts.w.off[2]),
      Tok("f", bts.w.scl[3]), Tok("f", bts.w.off[3]),
      Tok("l", InfoLen), Tok("s", InfoLen)>>
HeaderFieldCount == Len(HeaderOfBox)
\* the bytes of a field: a short, a long, a float, a string of val bytes
SizeOf(tok) ==
    CASE tok.fmt = "h" -> 2
      [] tok.fmt = "l" -> 4
      [] tok.fmt = "f" -> 4
      [] tok.fmt = "s" -> tok.val
RECURSIVE ByteLength(_)
ByteLength(data) ==
    IF data = <<>> THEN 0 ELSE SizeOf(Head(data)) + ByteLength(Tail(data))
HeaderWritten == bts.pc \in {"payload", "fallback", "returned"}

\* C8: the file starts with ID, nz, ny, nTower, nt, (dz, dy, dt, uRef, zRef,
\* z0), (scale0, off0, scale1, off1, scale2, off2), infoLen and the description,
\* with the dimensions of the staged arrays, and a file bts_write returned from
\* is 70 + infoLen + 2*nt*3*(ny*nz + nTower) bytes long
C8_HeaderAndLength ==
    /\ HeaderWritten =>
         /\ Len(file.data) >= HeaderFieldCount
         /\ SubSeq(file.data, 1, HeaderFieldCount) = HeaderOfBox
         /\ ByteLength(HeaderOfBox) = 70 + InfoLen
    /\ bts.pc = "returned" =>
         ByteLength(file.data)
             = 70 + InfoLen + 2 * StagedNt * 3 * (StagedNy * StagedNz + StagedNTwr)

\* a file with a tower, written by the first loop, of the stated length
C8_Witness ==
    /\ bts.pc = "returned" /\ ~bts.w.caught /\ StagedNTwr > 0 /\ StagedNt > 1
    /\ SubSeq(file.data, 1, HeaderFieldCount) = HeaderOfBox
    /\ ByteLength(file.data)
           = 70 + InfoLen + 2 * StagedNt * 3 * (StagedNy * StagedNz + StagedNTwr)

\* the fields of the file after the header
Payload == SubSeq(file.data, HeaderFieldCount + 1, Len(file.data))
RecordLength == 3 * (StagedNy * StagedNz + StagedNTwr)
\* the place in the payload, from 1, of grid sample (k, it, iy, iz) and of
\* tower sample (k, it, j): records by time step, in a record the grid before
\* the tower, in a block the component fastest, then y, then z
GridPlace(k, p) ==
    (p[1] - 1) * RecordLength + (p[3] - 1) * 3 * StagedNy + (p[2] - 1) * 3 + k
TwrPlace(k, q) ==
    (q[1] - 1) * RecordLength + 3 * StagedNy * StagedNz + (q[2] - 1) * 3 + k
PayloadInOrder ==
    /\ Len(Payload) = StagedNt * RecordLength
    /\ \A k \in 1..3 :
         /\ \A p \in GridPoints : Payload[GridPlace(k, p)] = Tok("h", GridStored(k, p))
         /\ \A q \in TwrPoints : Payload[TwrPlace(k, q)] = Tok("h", TwrStored(k, q))

\* C9: whenever bts_write returns, after the first loop or after the loop of
\* the except branch, the payload is the nt records in the order of the time
\* steps, each time step once, each record the grid block (component fastest,
\* then y, then z) followed by the tower block
C9_PayloadOncePerStep ==
    bts.pc = "returned" => PayloadInOrder

\* two time steps with a tower, written by the first loop
C9_Witness ==
    /\ bts.pc = "returned" /\ ~bts.w.caught
    /\ StagedNt = 2 /\ StagedNTwr > 0 /\ StagedNy * StagedNz > 1
    /\ PayloadInOrder

\* C10: when execute fails the output path is as it was before the run,
\* neither created nor truncated, and on every exit the file is closed
C10_NoPartialFile ==
    /\ (bts.entry = "execute" /\ bts.pc = "raised") => file \in FileSet
    /\ bts.pc \in {"raised", "returned"} => ~file.isopen

\* execute failed on an unresolvable axis assignment, the old file untouched
C10_Witness ==
    /\ bts.entry = "execute" /\ bts.pc = "raised"
    /\ bts.db.axis2 = V3(0, 3, 3)
    /\ file = [exists |-> TRUE, isopen |-> FALSE, data |-> OldData]

-----------------------------------------------------------------------------
(* C11: the axis resolution of convert_to_bts.execute *)

\* execute went past lines 178-203 without raising
AxesResolved == bts.entry = "execute" /\ bts.ex.flow_index # <<>>
AxisOf(db, i) == CASE i = 1 -> db.axis1 [] i = 2 -> db.axis2 [] i = 3 -> db.axis3
\* the axes with a nonzero x component
LeadWithX(db) == {i \in 1..3 : AxisOf(db, i)[1].num # 0}
\* the axis execute took for the streamwise direction
StreamwiseAxis == 3 - bts.ex.streamwise_index

\* C11: when execute goes on after the axis resolution, the three indices are
\* a permutation of {0,1,2} and the streamwise axis is the one axis with a
\* nonzero x component; with several such axes, or none, execute has failed
C11_AxisResolution ==
    AxesResolved =>
        /\ {bts.ex.streamwise_index, bts.ex.lateral_index, bts.ex.vertical_index}
               = {0, 1, 2}
        /\ LeadWithX(bts.db) = {StreamwiseAxis}

\* a resolved run whose streamwise axis is the one axis with an x component
C11_Witness ==
    /\ AxesResolved /\ bts.pc = "coords"
    /\ LeadWithX(bts.db) = {StreamwiseAxis}
    /\ bts.db.axis1 = V3(3, 0, 0)

-----------------------------------------------------------------------------
(* postproengine/__init__.py: the sampled-plane dataset, its native grid and *)
(* the interpolation of points on it                                         *)

\* timeindex=None: a field without time (time indices count from 0)
None == -1
\* the keys compute_axis1axis2_coords asks for
ConfigKeys == {"origin", "axis1", "axis2", "axis3", "offsets"}
\* the keys interp_db_pts and circavgtemplate.execute look for in the cache check
CacheKeys == {"a1", "a2", "a3"}

NumPlanes(db) == db.shape[1]
NumRows(db) == db.shape[2]
NumCols(db) == db.shape[3]

\* iplanemat of lines 307-309: plane k holds k for k < len(offsets), the
\* planes beyond keep the 0 of np.full_like
iplanemat(db, k) == IF k < Len(offsetlist(db.offsets)) THEN k ELSE 0

\* the place of node (k, r, c), from 0, in a ravelled array (from 1)
Ravel(db, k, r, c) == (k * NumRows(db) + r) * NumCols(db) + c + 1
NumNodes(db) == NumPlanes(db) * NumRows(db) * NumCols(db)
PlaneAt(db, i) == (i - 1) \div (NumRows(db) * NumCols(db))
RowAt(db, i) == ((i - 1) \div NumCols(db)) % NumRows(db)
ColAt(db, i) == (i - 1) % NumCols(db)
\* line 312: the nodes as a list of points, from the float arrays x, y, z
xyz_pt(db) ==
    [i \in 1..NumNodes(db) |->
        <<db.x[PlaneAt(db, i) + 1][RowAt(db, i) + 1][ColAt(db, i) + 1],
          db.y[PlaneAt(db, i) + 1][RowAt(db, i) + 1][ColAt(db, i) + 1],
          db.z[PlaneAt(db, i) + 1][RowAt(db, i) + 1][ColAt(db, i) + 1]>>]

\* a mutant: the offsets made a list at lines 304-305 are stored back
WithNative_listoffsets(db, avec) ==
    [db EXCEPT
       !.keys = db.keys \cup {"a1", "a2"},
       !.offsets = [kind |-> "list", val |-> offsetlist(db.offsets)],
       !.a1 = Array3(db.shape, LAMBDA k, r, c : avec[Ravel(db, k, r, c)][1]),
       !.a2 = Array3(db.shape, LAMBDA k, r, c : avec[Ravel(db, k, r, c)][2])]

\* lines 314-316: a1 and a2 stored on the dataset, in the shape of x
WithNative(db, avec) ==
    [db EXCEPT
       !.keys = db.keys \cup {"a1", "a2"},
       !.a1 = Array3(db.shape, LAMBDA k, r, c : avec[Ravel(db, k, r, c)][1]),
       !.a2 = Array3(db.shape, LAMBDA k, r, c : avec[Ravel(db, k, r, c)][2])]

\* compute_axis1axis2_coords(db): the outcome (the exception raised, "" for a
\* return) and the dataset it leaves
compute_axis1axis2_coords(db) ==
    IF ~(ConfigKeys \subseteq db.keys)
    THEN \* lines 289-295: a message is printed and the function returns
         [err |-> "", db |-> db]
    ELSE IF Len(offsetlist(db.offsets)) > NumPlanes(db)
    THEN \* line 309: iplanemat[k,:,:] with k beyond the planes
         [err |-> "IndexError", db |-> db]
    ELSE [err |-> "",
          db |-> WithNative(db,
                    SubSeq(convert_pt_xyz_to_axis1axis2(xyz_pt(db), "float", db.origin,
                               db.axis1, db.axis2, db.axis3, db.offsets,
                               [i \in 1..NumNodes(db) |-> iplanemat(db, PlaneAt(db, i))]),
                           1, NumNodes(db)))]

\* a mutant: the cache check looks for a1 only
NeedsCompute_a1only(db) == "a1" \notin db.keys
\* lines 331-334: the cache check of interp_db_pts and of circavgtemplate
NeedsCompute(db) == ~(CacheKeys \subseteq db.keys)

\* lines 347-359: the query points on plane iplane in both coordinate systems
PointsOnPlane(db, ptlist, ptdtype, pt_coords, iplane) ==
    IF ~(ConfigKeys \subseteq db.keys)
    THEN [err |-> "KeyError", a1a2 |-> <<>>, xyz |-> <<>>]
    ELSE IF iplane >= Len(offsetlist(db.offsets))
    THEN [err |-> "IndexError", a1a2 |-> <<>>, xyz |-> <<>>]
    ELSE IF pt_coords = "XYZ"
    THEN [err |-> "",
          a1a2 |-> SubSeq(convert_pt_xyz_to_axis1axis2(ptlist, ptdtype, db.origin,
                              db.axis1, db.axis2, db.axis3, db.offsets,
                              [i \in DOMAIN ptlist |-> iplane]),
                          1, Len(ptlist)),
          xyz |-> ptlist]
    ELSE [err |-> "",
          a1a2 |-> ptlist,
          xyz |-> SubSeq(convert_pt_axis1axis2_to_xyz(ptlist, db.origin, db.axis1,
                             db.axis2, db.axis3, db.offsets, iplane),
                         1, Len(ptlist))]

\* the grid of RegularGridInterpolator must be strictly ascending
StrictlyAscending(grid) == \A i \in 1..(Len(grid) - 1) : RLt(grid[i], grid[i + 1])

\* RegularGridInterpolator((g0, g1), values, method='nearest')((x0, x1)): the
\* nearer node of the cell, the lower one when the point is halfway
Nearest(g0, g1, values, x0, x1) ==
    LET i  == CellOf(g0, x0)
        j  == CellOf(g1, x1)
        ni == IF RLe(UpperWeight(g0, i, x0), Half) THEN Lower(g0, i) ELSE Upper(g0, i)
        nj == IF RLe(UpperWeight(g1, j, x1), Half) THEN Lower(g1, j) ELSE Upper(g1, j)
    IN  values[ni][nj]

\* a mutant: the query points are evaluated as (a1, a2) pairs
InterpVar_unswapped(db, var, iplane, tindex, a1a2, method) ==
    IF "a1" \notin db.keys \/ "a2" \notin db.keys
    THEN [err |-> "KeyError", vals |-> <<>>]
    ELSE IF iplane >= NumPlanes(db)
            \/ (tindex # None /\ tindex >= Len(db.fields[var]))
    THEN [err |-> "IndexError", vals |-> <<>>]
    ELSE LET a1vec == db.a1[iplane + 1][1]
             a2vec == [r \in 1..NumRows(db) |-> db.a2[iplane + 1][r][1]]
             dbvar == IF tindex = None THEN db.fields[var][iplane + 1]
                      ELSE db.fields[var][tindex + 1][iplane + 1]
         IN  IF ~StrictlyAscending(a1vec) \/ ~StrictlyAscending(a2vec)
                \/ \E i \in DOMAIN a1a2 :
                       ~InBounds(a2vec, a1a2[i][1]) \/ ~InBounds(a1vec, a1a2[i][2])
             THEN [err |-> "ValueError", vals |-> <<>>]
             ELSE [err |-> "",
                   vals |-> [i \in DOMAIN a1a2 |->
                       IF method = "linear"
                       THEN Interpolate(a2vec, a1vec, dbvar, a1a2[i][1], a1a2[i][2])
                       ELSE Nearest(a2vec, a1vec, dbvar, a1a2[i][1], a1a2[i][2])]]

\* lines 372-381: one variable on plane iplane at time index tindex (None
\* for a field without time), at the points ptswap = (a2, a1)
InterpVar(db, var, iplane, tindex, a1a2, method) ==
    IF "a1" \notin db.keys \/ "a2" \notin db.keys
    THEN [err |-> "KeyError", vals |-> <<>>]
    ELSE IF iplane >= NumPlanes(db)
            \/ (tindex # None /\ tindex >= Len(db.fields[var]))
    THEN [err |-> "IndexError", vals |-> <<>>]
    ELSE LET a1vec == db.a1[iplane + 1][1]
             a2vec == [r \in 1..NumRows(db) |-> db.a2[iplane + 1][r][1]]
             dbvar == IF tindex = None THEN db.fields[var][iplane + 1]
                      ELSE db.fields[var][tindex + 1][iplane + 1]
         IN  IF ~StrictlyAscending(a1vec) \/ ~StrictlyAscending(a2vec)
                \/ \E i \in DOMAIN a1a2 :
                       ~InBounds(a2vec, a1a2[i][2]) \/ ~InBounds(a1vec, a1a2[i][1])
             THEN [err |-> "ValueError", vals |-> <<>>]
             ELSE [err |-> "",
                   vals |-> [i \in DOMAIN a1a2 |->
                       IF method = "linear"
                       THEN Interpolate(a2vec, a1vec, dbvar, a1a2[i][2], a1a2[i][1])
                       ELSE Nearest(a2vec, a1vec, dbvar, a1a2[i][2], a1a2[i][1])]]

-----------------------------------------------------------------------------
(* The datasets and the calls of interp_db_pts and circavgtemplate.execute *)

\* the calls made one after the other on a dataset
MaxCalls == 2

\* velocityx differs at every node and time, velocityy is 3.5 everywhere
PlaneField(var, t, k, r, c) ==
    IF var = "velocityx" THEN I(1 + 100 * t + 10 * k + 3 * r + c) ELSE Rat(7, 2)
VarNames == {"velocityx", "velocityy"}
NumTimes == 2

\* planes of nrow x ncol nodes of unit spacing, columns along y and rows along
\* z from origin, plane k at the distance stack[k+1] along x; meta holds what
\* the dataset says about itself: its keys, axis1, axis3 and offsets
PlaneDataset(shape, origin, stack, series, meta) ==
    [keys |-> meta.keys,
     shape |-> shape,
     x |-> Array3(shape, LAMBDA k, r, c : RAdd(origin[1], stack[k + 1])),
     y |-> Array3(shape, LAMBDA k, r, c : RAdd(origin[2], I(c))),
     z |-> Array3(shape, LAMBDA k, r, c : RAdd(origin[3], I(r))),
     origin |-> origin,
     axis1 |-> meta.axis1, axis2 |-> V3(0, 0, 1), axis3 |-> meta.axis3,
     offsets |-> meta.offsets,
     times |-> [n \in 1..NumTimes |-> Rat(n - 1, 4)],
     series |-> series,
     fields |-> [var \in VarNames |->
                   IF series
                   THEN [n \in 1..NumTimes |->
                           Array3(shape, LAMBDA k, r, c : PlaneField(var, n - 1, k, r, c))]
                   ELSE Array3(shape, LAMBDA k, r, c : PlaneField(var, 0, k, r, c))],
     a1 |-> <<>>, a2 |-> <<>>]

TwoPlanes == <<2, 2, 3>>
OnePlane == <<1, 2, 3>>
Stack == <<I(0), I(10)>>
ShiftedOrigin == <<I(0), Half, I(-1)>>
GoodMeta == [keys |-> ConfigKeys, axis1 |-> V3(0, 1, 0), axis3 |-> V3(1, 0, 0),
             offsets |-> [kind |-> "list", val |-> Stack]]

\* a dataset that carries a1, a2 and a3 from an earlier tool
Preloaded(db) ==
    [compute_axis1axis2_coords(db).db EXCEPT !.keys = @ \cup {"a3"}]

\* complete datasets: offsets as a list, as an array, as a scalar with a zero
\* axis3 (one plane), and with the cache filled
GoodDbs(series) ==
    {PlaneDataset(TwoPlanes, origin, Stack, series, GoodMeta) :
        origin \in {V3(0, 0, 0), ShiftedOrigin}}
    \cup IF series THEN {} ELSE
         {PlaneDataset(TwoPlanes, V3(0, 0, 0), Stack, series,
              [GoodMeta EXCEPT !.offsets = [kind |-> "array", val |-> Stack]]),
          PlaneDataset(OnePlane, V3(0, 0, 0), Stack, series,
              [GoodMeta EXCEPT !.axis3 = V3(0, 0, 0),
                               !.offsets = [kind |-> "scalar", val |-> I(0)]]),
          Preloaded(PlaneDataset(TwoPlanes, V3(0, 0, 0), Stack, series, GoodMeta))}

\* datasets with a defect: a key missing, a zero axis1, fewer and more offsets
\* than planes
BadDbs(series) ==
    {PlaneDataset(TwoPlanes, V3(0, 0, 0), Stack, series, meta) : meta \in
        {[GoodMeta EXCEPT !.keys = ConfigKeys \ {"offsets"}],
         [GoodMeta EXCEPT !.keys = ConfigKeys \ {"axis1"}],
         [GoodMeta EXCEPT !.axis1 = V3(0, 0, 0)],
         [GoodMeta EXCEPT !.offsets = [kind |-> "list", val |-> <<I(0)>>]],
         [GoodMeta EXCEPT !.offsets = [kind |-> "list", val |-> <<I(0), I(10), I(20)>>]]}}

\* query points: native (a node, a cell centre, a point off the grid) and
\* global, given as reals or as integers
Queries ==
    {[pt_coords |-> "A1A2", ptdtype |-> "float", ptlist |-> pts] : pts \in
        {<<<<I(2), I(1)>>>>, <<<<Half, Half>>, <<I(2), I(1)>>>>, <<<<I(5), I(0)>>>>}}
    \cup {[pt_coords |-> "XYZ", ptdtype |-> "float", ptlist |-> <<<<I(0), Rat(5, 2), I(0)>>>>],
          [pt_coords |-> "XYZ", ptdtype |-> "int", ptlist |-> <<V3(0, 2, 1)>>],
          [pt_coords |-> "XYZ", ptdtype |-> "int", ptlist |-> <<V3(0, 0, 0), V3(10, 1, 0)>>]}
PlaneLists == {<<0>>, <<1, 0>>}
TimeLists(series) == IF series THEN {<<0>>, <<1, 0>>} ELSE {<<None>>}
VarLists == {<<>>, <<"velocityx">>, <<"velocityx", "velocityy">>}

NoTable == [rows |-> 0]
NoPoints == [a1a2 |-> <<>>, xyz |-> <<>>]
NoProfile == [r |-> <<>>]
\* the fields of call shared by both operations
CallOn(op, db, args) ==
    [op |-> op, pc |-> op, err |-> "", db |-> db, args |-> args,
     ncalls |-> 1, ncompute |-> 0, after |-> "",
     ip |-> 0, it |-> 0, ir |-> 0, pts |-> NoPoints, interpdat |-> NoTable,
     center |-> <<>>,
     Rprofiledat |-> NoProfile, saved |-> <<>>]

\* a caller about to run interp_db_pts(db, ptlist, iplanelist, varnames,
\* pt_coords, timeindex, method)
InitInterp ==
    \E series \in BOOLEAN :
      \E db \in GoodDbs(series) \cup BadDbs(series), q \in Queries,
         iplanelist \in PlaneLists, timeindex \in TimeLists(series),
         varnames \in VarLists, method \in {"linear", "nearest"} :
        /\ db \in BadDbs(series) =>
             /\ method = "linear" /\ varnames # <<>> /\ q.ptdtype = "float"
             /\ Len(timeindex) = 1
        /\ method = "nearest" => Len(varnames) = 1 /\ Len(iplanelist) = 1
        /\ call = CallOn("interp_db_pts", db,
                         [ptlist |-> q.ptlist, ptdtype |-> q.ptdtype,
                          pt_coords |-> q.pt_coords, iplanelist |-> iplanelist,
                          timeindex |-> timeindex, varnames |-> varnames,
                          method |-> method])
        /\ bts = BtsIdle /\ file = FileIdle


\* the first failing step of one pass of the loop of lines 361-381, in the
\* order of the code: the time column (step 0), then the variables (steps
\* 1, 2, ...); "" when no step fails
StepErr(db, args, iplane, pts, j, step) ==
    IF step = 0
    THEN (IF args.timeindex[j] # None /\ j - 1 >= Len(db.times)
          THEN "IndexError" ELSE "")
    ELSE InterpVar(db, args.varnames[step], iplane, args.timeindex[j], pts.a1a2,
                   args.method).err
FirstErr(db, args, iplane, pts, j) ==
    LET failed == {step \in 0..Len(args.varnames) :
                      StepErr(db, args, iplane, pts, j, step) # ""}
    IN  IF failed = {} THEN ""
        ELSE StepErr(db, args, iplane, pts, j,
                     CHOOSE a \in failed : \A b \in failed : a <= b)

\* lines 362-381 for the j-th time index: the rows appended to every column,
\* one row for each query point
TimeBlock(db, args, iplane, pts, j) ==
    IF FirstErr(db, args, iplane, pts, j) # ""
    THEN [err |-> FirstErr(db, args, iplane, pts, j)]
    ELSE [err |-> "",
          a1 |-> [i \in DOMAIN pts.a1a2 |-> pts.a1a2[i][1]],
          a2 |-> [i \in DOMAIN pts.a1a2 |-> pts.a1a2[i][2]],
          x |-> [i \in DOMAIN pts.xyz |-> pts.xyz[i][1]],
          y |-> [i \in DOMAIN pts.xyz |-> pts.xyz[i][2]],
          z |-> [i \in DOMAIN pts.xyz |-> pts.xyz[i][3]],
          time |-> IF args.timeindex[j] = None THEN <<>>
                   ELSE [i \in DOMAIN pts.a1a2 |-> db.times[j]],
          vars |-> [v \in DOMAIN args.varnames |->
                      InterpVar(db, args.varnames[v], iplane, args.timeindex[j],
                                pts.a1a2, args.method).vals]]

\* lines 337-343: the empty columns
EmptyTable(args) ==
    [rows |-> 0, a1 |-> <<>>, a2 |-> <<>>, x |-> <<>>, y |-> <<>>, z |-> <<>>,
     hasTime |-> args.timeindex[1] # None, time |-> <<>>,
     vars |-> [v \in DOMAIN args.varnames |-> <<>>]]
\* a mutant: the new rows are put in front of the column
Appended_infront(t, blk) ==
    [rows |-> t.rows + Len(blk.a1),
     a1 |-> blk.a1 \o t.a1, a2 |-> blk.a2 \o t.a2,
     x |-> blk.x \o t.x, y |-> blk.y \o t.y, z |-> blk.z \o t.z,
     hasTime |-> t.hasTime, time |-> blk.time \o t.time,
     vars |-> [v \in DOMAIN t.vars |-> blk.vars[v] \o t.vars[v]]]

\* np.append of new rows to every column
Appended(t, blk) ==
    [rows |-> t.rows + Len(blk.a1),
     a1 |-> t.a1 \o blk.a1, a2 |-> t.a2 \o blk.a2,
     x |-> t.x \o blk.x, y |-> t.y \o blk.y, z |-> t.z \o blk.z,
     hasTime |-> t.hasTime, time |-> t.time \o blk.time,
     vars |-> [v \in DOMAIN t.vars |-> t.vars[v] \o blk.vars[v]]]

CallRaised(e) == call' = [call EXCEPT !.pc = "raised", !.err = e]

\* lines 324-343: the cache check and the empty table
InterpCacheCheck ==
    /\ call.pc = "interp_db_pts"
    /\ call' = [call EXCEPT
                  !.pc = IF NeedsCompute(call.db) THEN "compute" ELSE "interp_loop",
                  !.after = "interp_loop",
                  !.ip = 0,
                  !.interpdat = EmptyTable(call.args)]
    /\ UNCHANGED <<bts, file>>

\* line 334 and line 444: compute_axis1axis2_coords(db)
ComputeCoords ==
    /\ call.pc = "compute"
    /\ LET res == compute_axis1axis2_coords(call.db)
       IN  call' = IF res.err # ""
                   THEN [call EXCEPT !.pc = "raised", !.err = res.err,
                                     !.ncompute = call.ncompute + 1]
                   ELSE [call EXCEPT !.pc = call.after, !.db = res.db,
                                     !.ncompute = call.ncompute + 1]
    /\ UNCHANGED <<bts, file>>

\* lines 346-359: the start of the pass over one plane
InterpPoints ==
    /\ call.pc = "interp_loop" /\ call.ip < Len(call.args.iplanelist)
    /\ \E pts \in {PointsOnPlane(call.db, call.args.ptlist, call.args.ptdtype,
                                 call.args.pt_coords,
                                 call.args.iplanelist[call.ip + 1])} :
         IF pts.err # "" THEN CallRaised(pts.err)
         ELSE call' = [call EXCEPT !.pc = "interp_time", !.it = 0,
                                   !.pts = [a1a2 |-> pts.a1a2, xyz |-> pts.xyz]]
    /\ UNCHANGED <<bts, file>>

\* lines 361-381: one pass of the loop over timeindex; after the last one the
\* loop over the planes goes on
InterpTime ==
    /\ call.pc = "interp_time" /\ call.it < Len(call.args.timeindex)
    /\ \E blk \in {TimeBlock(call.db, call.args, call.args.iplanelist[call.ip + 1],
                             call.pts, call.it + 1)} :
         IF blk.err # "" THEN CallRaised(blk.err)
         ELSE call' = [call EXCEPT
                         !.interpdat = Appended(call.interpdat, blk),
                         !.it = call.it + 1,
                         !.pc = IF call.it + 1 = Len(call.args.timeindex)
                                THEN "interp_loop" ELSE "interp_time",
                         !.ip = IF call.it + 1 = Len(call.args.timeindex)
                                THEN call.ip + 1 ELSE call.ip]
    /\ UNCHANGED <<bts, file>>

\* line 382
InterpReturn ==
    /\ call.pc = "interp_loop" /\ call.ip = Len(call.args.iplanelist)
    /\ call' = [call EXCEPT !.pc = "returned"]
    /\ UNCHANGED <<bts, file>>

\* the caller runs the same operation again on the dataset as it now is
CallAgain ==
    /\ call.pc = "returned" /\ call.ncalls < MaxCalls
    /\ call' = [call EXCEPT !.pc = call.op, !.ncalls = call.ncalls + 1,
                            !.ip = 0, !.it = 0, !.ir = 0, !.pts = NoPoints,
                            !.interpdat = NoTable,
                            !.center = <<>>, !.Rprofiledat = NoProfile, !.after = ""]
    /\ UNCHANGED <<bts, file>>

-----------------------------------------------------------------------------
(* circavgtemplate.execute *)

\* np.linspace(start, stop, num, endpoint)
linspace(start, stop, num, endpoint) ==
    LET div  == IF endpoint THEN num - 1 ELSE num
        step == IF div > 0 THEN RDiv(RSub(stop, start), I(div)) ELSE I(0)
    IN  [i \in 1..num |-> RAdd(start, RMul(I(i - 1), step))]

\* angles are counted in quarter turns (theta = q*pi/2), where np.cos and
\* np.sin are taken as exactly 1, 0, -1
QuarterTurns == 4
CosQ(q) == LET m == q.num % QuarterTurns
           IN  CASE m = 0 -> I(1) [] m = 2 -> I(-1) [] OTHER -> I(0)
SinQ(q) == LET m == q.num % QuarterTurns
           IN  CASE m = 1 -> I(1) [] m = 3 -> I(-1) [] OTHER -> I(0)

\* a mutant: the end angle is one of the samples
thetavec_closed(args) == linspace(args.theta1, args.theta2, args.Ntheta, TRUE)
\* line 446
thetavec(args) == linspace(args.theta1, args.theta2, args.Ntheta, FALSE)
\* line 447
rvec(args) == linspace(args.r1, args.r2, args.Nr, TRUE)

\* lines 478-482: the points of the circle of radius R about the centre
thetapoints(center, R, args) ==
    [i \in 1..args.Ntheta |->
        <<RAdd(center[1], RMul(R, CosQ(thetavec(args)[i]))),
          RAdd(center[2], RMul(R, SinQ(thetavec(args)[i])))>>]

\* the call of line 483
CircleQuery(center, R, iplane, args) ==
    [ptlist |-> SubSeq(thetapoints(center, R, args), 1, args.Ntheta),
     ptdtype |-> "float", pt_coords |-> "A1A2",
     iplanelist |-> <<iplane>>, timeindex |-> <<None>>, varnames |-> args.varnames,
     method |-> "linear"]

\* lines 462-474: the centre in native coordinates on plane iplane
CenterOnPlane(db, args, iplane) ==
    IF ~(ConfigKeys \subseteq db.keys) THEN [err |-> "KeyError", center |-> <<>>]
    ELSE IF args.pointcoordsystem = "XYZ"
    THEN (IF iplane >= Len(offsetlist(db.offsets))
          THEN [err |-> "IndexError", center |-> <<>>]
          \* line 474: offsets[iplane] of a number
          ELSE IF db.offsets.kind = "scalar" THEN [err |-> "TypeError", center |-> <<>>]
          ELSE [err |-> "",
                center |-> convert_pt_xyz_to_axis1axis2(<<args.centerpoint>>, args.ctrdtype,
                               db.origin, db.axis1, db.axis2, db.axis3, db.offsets,
                               <<iplane>>)[1]])
    \* line 469: the plane index is passed as the list [iplane], which indexes
    \* an array but not a list
    ELSE IF db.offsets.kind # "array" THEN [err |-> "TypeError", center |-> <<>>]
    ELSE IF iplane >= Len(offsetlist(db.offsets))
    THEN [err |-> "IndexError", center |-> <<>>]
    ELSE [err |-> "", center |-> args.centerpoint]

\* lines 428-450: the inputs and the cache check
CircCacheCheck ==
    /\ call.pc = "circavg"
    /\ call' = [call EXCEPT
                  !.pc = IF NeedsCompute(call.db) THEN "compute" ELSE "circ_plane",
                  !.after = "circ_plane",
                  !.ip = 0]
    /\ UNCHANGED <<bts, file>>

\* lines 452-474: the start of the pass over one plane
CircPlane ==
    /\ call.pc = "circ_plane" /\ call.ip < Len(call.args.iplane)
    /\ LET c == CenterOnPlane(call.db, call.args, call.args.iplane[call.ip + 1])
       IN  IF c.err # "" THEN CallRaised(c.err)
           ELSE call' = [call EXCEPT
                           !.pc = "circ_radius", !.ir = 0, !.center = c.center,
                           !.Rprofiledat = [r |-> <<>>,
                                            vars |-> [v \in DOMAIN call.args.varnames |-> <<>>]]]
    /\ UNCHANGED <<bts, file>>

\* lines 477-483: one radius; interp_db_pts is entered with the points of
\* the circle and makes its own cache check (lines 331-334)
CircRadius ==
    /\ call.pc = "circ_radius" /\ call.ir < call.args.Nr
    /\ call' = [call EXCEPT
                  !.pc = IF NeedsCompute(call.db) THEN "compute" ELSE "circ_interp",
                  !.after = "circ_interp"]
    /\ UNCHANGED <<bts, file>>

\* lines 483-486: the table of the circle and the means of its columns
CircInterp ==
    /\ call.pc = "circ_interp"
    /\ \E query \in {CircleQuery(call.center, rvec(call.args)[call.ir + 1],
                                 call.args.iplane[call.ip + 1], call.args)} :
       \E pts \in {PointsOnPlane(call.db, query.ptlist, query.ptdtype, query.pt_coords,
                                 query.iplanelist[1])} :
         IF pts.err # "" THEN CallRaised(pts.err)
         ELSE \E blk \in {TimeBlock(call.db, query, query.iplanelist[1], pts, 1)} :
           IF blk.err # "" THEN CallRaised(blk.err)
           ELSE call' = [call EXCEPT
                           !.pc = "circ_radius",
                           !.ir = call.ir + 1,
                           !.interpdat = Appended(EmptyTable(query), blk),
                           !.Rprofiledat =
                               [r |-> Append(call.Rprofiledat.r, rvec(call.args)[call.ir + 1]),
                                vars |-> [v \in DOMAIN call.args.varnames |->
                                            Append(call.Rprofiledat.vars[v],
                                                   Mean(blk.vars[v]))]]]
    /\ UNCHANGED <<bts, file>>

\* lines 488-492: the profile of the plane is saved
CircSave ==
    /\ call.pc = "circ_radius" /\ call.ir = call.args.Nr
    /\ call' = [call EXCEPT
                  !.pc = "circ_plane", !.ip = call.ip + 1,
                  !.saved = Append(call.saved,
                                   [iplane |-> call.args.iplane[call.ip + 1],
                                    ncalls |-> call.ncalls,
                                    profile |-> call.Rprofiledat])]
    /\ file' = [exists |-> TRUE, isopen |-> FALSE, data |-> <<call.Rprofiledat>>]
    /\ UNCHANGED bts

\* line 494
CircReturn ==
    /\ call.pc = "circ_plane" /\ call.ip = Len(call.args.iplane)
    /\ call' = [call EXCEPT !.pc = "returned"]
    /\ UNCHANGED <<bts, file>>

\* the inputs of the action: centres in native and in global coordinates
Centers ==
    {[pointcoordsystem |-> "A1A2", ctrdtype |-> "float", centerpoint |-> <<I(1), Half>>],
     [pointcoordsystem |-> "XYZ", ctrdtype |-> "float", centerpoint |-> <<I(0), I(1), Half>>],
     [pointcoordsystem |-> "XYZ", ctrdtype |-> "float",
      centerpoint |-> <<I(0), Rat(3, 2), RNeg(Half)>>],
     [pointcoordsystem |-> "XYZ", ctrdtype |-> "int", centerpoint |-> V3(0, 1, 0)]}
Radii ==
    {[r1 |-> I(0), r2 |-> Half, Nr |-> 1], [r1 |-> I(0), r2 |-> Half, Nr |-> 2],
     [r1 |-> I(0), r2 |-> Half, Nr |-> 3], [r1 |-> Rat(1, 4), r2 |-> Half, Nr |-> 2],
     [r1 |-> I(0), r2 |-> I(2), Nr |-> 2]}
Angles ==
    {[theta1 |-> I(0), theta2 |-> I(4), Ntheta |-> 4],
     [theta1 |-> I(0), theta2 |-> I(4), Ntheta |-> 2],
     [theta1 |-> I(0), theta2 |-> I(2), Ntheta |-> 1],
     [theta1 |-> I(1), theta2 |-> I(3), Ntheta |-> 2]}
CircVarLists == {<<"velocityy">>, <<"velocityx", "velocityy">>}

\* a run of circavgtemplate.execute on a dataset of fields without time
InitCirc ==
    \E db \in GoodDbs(FALSE) \cup BadDbs(FALSE), c \in Centers, rr \in Radii,
       th \in Angles, iplane \in PlaneLists, varnames \in CircVarLists :
        /\ db \in BadDbs(FALSE) =>
             /\ rr.Nr = 2 /\ rr.r1 = I(0) /\ rr.r2 = Half
             /\ th.Ntheta = 4 /\ Len(varnames) = 1 /\ Len(iplane) = 1
        /\ th.Ntheta = 4 \/ (rr.Nr = 2 /\ rr.r1 = I(0) /\ rr.r2 = Half)
        /\ c.ctrdtype = "int" =>
             /\ rr.Nr = 1 /\ th.Ntheta = 4 /\ db \in GoodDbs(FALSE)
        /\ Len(iplane) = Len(varnames)
        /\ call = CallOn("circavg", db,
                         [centerpoint |-> c.centerpoint, ctrdtype |-> c.ctrdtype,
                          pointcoordsystem |-> c.pointcoordsystem,
                          r1 |-> rr.r1, r2 |-> rr.r2, Nr |-> rr.Nr,
                          theta1 |-> th.theta1, theta2 |-> th.theta2, Ntheta |-> th.Ntheta,
                          iplane |-> iplane, varnames |-> varnames])
        /\ bts = BtsIdle /\ file = FileIdle

InitPlanes == InitInterp \/ InitCirc
NextPlanes ==
    \/ InterpCacheCheck \/ ComputeCoords \/ InterpPoints \/ InterpTime \/ InterpReturn
    \/ CircCacheCheck \/ CircPlane \/ CircRadius \/ CircInterp \/ CircSave \/ CircReturn
    \/ CallAgain
SpecPlanes == InitPlanes /\ [][NextPlanes]_vars

-----------------------------------------------------------------------------
(* C12 .. C20: interp_db_pts, compute_axis1axis2_coords and circavgtemplate *)

InterpReturned == call.op = "interp_db_pts" /\ call.pc = "returned"
\* the columns of a table that hold one number for every row
PointColumns(t) == <<t.a1, t.a2, t.x, t.y, t.z>>
\* the row, from 1, of (plane P[i], time T[j], point n), all from 0
RowOf(args, i, j, n) ==
    (i * Len(args.timeindex) + j) * Len(args.ptlist) + n + 1
\* what the code works out for point n on the plane P[i]
QueryOn(db, args, i) ==
    PointsOnPlane(db, args.ptlist, args.ptdtype, args.pt_coords, args.iplanelist[i + 1])

\* C12: in the table interp_db_pts returns every column (a1, a2, x, y, z, time
\* when present, each requested variable) has |P|*|T|*N entries, and the entry
\* of (plane P[i], time T[j], point n) is at row (i*|T| + j)*N + n: the rows
\* are grouped by plane, then by time, then in the order of the query points
C12_RowOrdering ==
    InterpReturned =>
        LET args == call.args
            t    == call.interpdat
            rows == Len(args.iplanelist) * Len(args.timeindex) * Len(args.ptlist)
        IN  /\ \A k \in 1..5 : Len(PointColumns(t)[k]) = rows
            /\ t.hasTime => Len(t.time) = rows
            /\ \A v \in DOMAIN args.varnames : Len(t.vars[v]) = rows
            /\ \A i \in 0..(Len(args.iplanelist) - 1) :
               \A j \in 0..(Len(args.timeindex) - 1) :
               \A n \in 0..(Len(args.ptlist) - 1) :
                 LET row == RowOf(args, i, j, n)
                     q   == QueryOn(call.db, args, i)
                 IN  /\ t.a1[row] = q.a1a2[n + 1][1]
                     /\ t.a2[row] = q.a1a2[n + 1][2]
                     /\ <<t.x[row], t.y[row], t.z[row]>> = q.xyz[n + 1]
                     /\ \A v \in DOMAIN args.varnames :
                          t.vars[v][row] =
                              InterpVar(call.db, args.varnames[v], args.iplanelist[i + 1],
                                        args.timeindex[j + 1], q.a1a2, args.method).vals[n + 1]

\* a returned table of two planes, two time indices, two points and a variable
C12_Witness ==
    /\ InterpReturned
    /\ Len(call.args.iplanelist) = 2 /\ Len(call.args.timeindex) = 2
    /\ Len(call.args.ptlist) = 2 /\ call.args.varnames # <<>>
    /\ call.interpdat.rows = 8

\* the plane and the time index of a row of the returned table (C12)
PlaneOfRow(args, row) ==
    args.iplanelist[((row - 1) \div (Len(args.timeindex) * Len(args.ptlist))) + 1]
TimeOfRow(args, row) ==
    args.timeindex[(((row - 1) \div Len(args.ptlist)) % Len(args.timeindex)) + 1]
\* the stored value of var at node (r, c), from 0, of a plane at a time index
StoredAt(db, var, tindex, iplane, r, c) ==
    IF tindex = None THEN db.fields[var][iplane + 1][r + 1][c + 1]
    ELSE db.fields[var][tindex + 1][iplane + 1][r + 1][c + 1]
\* the rows of the table whose native coordinates are those of node (r, c) of
\* the plane of the row
RowsAtNode(r, c) ==
    {row \in 1..call.interpdat.rows :
        LET k == PlaneOfRow(call.args, row)
        IN  /\ call.interpdat.a1[row] = call.db.a1[k + 1][r + 1][c + 1]
            /\ call.interpdat.a2[row] = call.db.a2[k + 1][r + 1][c + 1]}

\* C13: a query point whose native coordinates (a1, a2) are those of the stored
\* node (row r, column c) of its plane gets the stored field value at
\* [plane, r, c], for every plane, time index, variable and method (linear and
\* nearest): a2 is the row axis, a1 the column axis and the points are
\* evaluated as (a2, a1) pairs
C13_ExactAtNodes ==
    InterpReturned =>
        \A r \in 0..(NumRows(call.db) - 1), c \in 0..(NumCols(call.db) - 1) :
        \A row \in RowsAtNode(r, c) :
        \A v \in DOMAIN call.args.varnames :
            call.interpdat.vars[v][row] =
                StoredAt(call.db, call.args.varnames[v], TimeOfRow(call.args, row),
                         PlaneOfRow(call.args, row), r, c)

\* a table with a row on the node of row 0 and column 1, at the second time
\* index of a plane that is not the first
C13_Witness ==
    /\ InterpReturned
    /\ call.args.varnames # <<>>
    /\ \E row \in RowsAtNode(0, 1) :
         TimeOfRow(call.args, row) = 1 /\ PlaneOfRow(call.args, row) = 1

\* the native coordinates of the query points on plane iplane, computed in
\* real arithmetic whatever the type of the points given
TrueNative(db, args, iplane) ==
    PointsOnPlane(db, args.ptlist, "float", args.pt_coords, iplane).a1a2
\* the native grid extent of plane iplane: a1 along row 0, a2 along column 0
InExtent(db, iplane, p) ==
    /\ InBounds(db.a1[iplane + 1][1], p[1])
    /\ InBounds([r \in 1..NumRows(db) |-> db.a2[iplane + 1][r][1]], p[2])
\* the requested planes on which some query point is outside the extent
PlanesLeft(db, args) ==
    {i \in DOMAIN args.iplanelist :
        \E n \in DOMAIN args.ptlist :
            ~InExtent(db, args.iplanelist[i], TrueNative(db, args, args.iplanelist[i])[n])}

\* C14: a query with a point outside the native grid extent of a requested
\* plane ends in an error raised to the caller, interp_db_pts returns no table
C14_OutsideRaises ==
    InterpReturned => PlanesLeft(call.db, call.args) = {}

\* a table with interpolated values is returned for a query holding a point
\* outside the extent of the plane
C14_Witness ==
    /\ InterpReturned
    /\ call.args.varnames # <<>>
    /\ PlanesLeft(call.db, call.args) # {}
    /\ call.interpdat.rows > 0

\* C15: the native grid is cached; over the calls made on one dataset
\* compute_axis1axis2_coords runs at most once, and never again once the
\* dataset holds a1 and a2 (a1 and a2 being there before any interpolation)
C15_ComputedOnce ==
    /\ call.ncompute <= 1
    /\ call.pc = "compute" => ~({"a1", "a2"} \subseteq call.db.keys)
    /\ call.pc \in {"interp_time", "circ_interp"} =>
           ~(ConfigKeys \subseteq call.db.keys) \/ {"a1", "a2"} \subseteq call.db.keys

\* the native grid is about to be computed again on a dataset that holds it
C15_Witness ==
    /\ call.pc = "compute" /\ call.ncompute >= 1
    /\ {"a1", "a2"} \subseteq call.db.keys

\* C16: compute_axis1axis2_coords on a dataset without one of origin, axis1,
\* axis2, axis3, offsets ends in an error raised to the caller and never
\* returns normally
C16_MissingFieldsRaise ==
    [][(call.pc = "compute" /\ ~(ConfigKeys \subseteq call.db.keys))
          => call'.pc = "raised"]_vars

\* compute_axis1axis2_coords has returned to interp_db_pts on a dataset
\* without offsets
C16_Witness ==
    /\ call.ncompute = 1 /\ call.pc = "interp_loop" /\ call.err = ""
    /\ "offsets" \notin call.db.keys

ZeroNorm(axis) == Norm(axis) = I(0)
\* compute_axis1axis2_coords has returned normally on a complete dataset
Computed == call.ncompute > 0 /\ call.pc # "raised" /\ ConfigKeys \subseteq call.db.keys
\* the node (k, r, c), from 0, of the dataset
NodeAt(db, k, r, c) == <<db.x[k + 1][r + 1][c + 1], db.y[k + 1][r + 1][c + 1],
                         db.z[k + 1][r + 1][c + 1]>>
\* the native coordinates of the node about the point taken as plane origin
NativeAbout(db, porigin, k, r, c) ==
    <<Dot(UnitAxis(db.axis1), VSub(NodeAt(db, k, r, c), porigin)),
      Dot(UnitAxis(db.axis2), VSub(NodeAt(db, k, r, c), porigin))>>
StoredNative(db, k, r, c) == <<db.a1[k + 1][r + 1][c + 1], db.a2[k + 1][r + 1][c + 1]>>
Nodes(db) == (0..(NumPlanes(db) - 1)) \X (0..(NumRows(db) - 1)) \X (0..(NumCols(db) - 1))

\* C17: with a zero-norm axis1 or axis2 the conversion ends in an error and
\* returns no coordinates; a zero-norm axis3 is accepted and every plane
\* origin is then origin itself
C17_DegenerateAxes ==
    /\ (ZeroNorm(call.db.axis1) \/ ZeroNorm(call.db.axis2)) =>
           /\ {"a1", "a2"} \cap call.db.keys = {}
           /\ call.ncompute > 0 => call.pc = "raised"
    /\ (Computed /\ ZeroNorm(call.db.axis3) /\ ~ZeroNorm(call.db.axis1)) =>
           /\ {"a1", "a2"} \subseteq call.db.keys
           /\ \A n \in Nodes(call.db) :
                StoredNative(call.db, n[1], n[2], n[3])
                    = NativeAbout(call.db, call.db.origin, n[1], n[2], n[3])

\* compute_axis1axis2_coords has returned on a dataset with a zero axis1 and
\* left coordinates that are not numbers
C17_Witness ==
    /\ ZeroNorm(call.db.axis1) /\ call.ncompute = 1 /\ call.pc = "interp_loop"
    /\ "a1" \in call.db.keys /\ IsNaN(call.db.a1[1][1][1])

\* C18: on every dataset compute_axis1axis2_coords accepts, the nodes of plane
\* k are converted about origin + axis3Unit*offsets[k] and a1, a2 have the
\* shape of the coordinates; a dataset whose number of offsets is not its
\* number of planes is rejected
C18_OffsetStacking ==
    (Computed /\ {"a1", "a2"} \subseteq call.db.keys /\ ~ZeroNorm(call.db.axis1)) =>
        /\ Len(offsetlist(call.db.offsets)) = NumPlanes(call.db)
        /\ Len(call.db.a1) = NumPlanes(call.db) /\ Len(call.db.a2) = NumPlanes(call.db)
        /\ \A k \in 1..NumPlanes(call.db) :
             /\ Len(call.db.a1[k]) = NumRows(call.db) /\ Len(call.db.a2[k]) = NumRows(call.db)
             /\ \A r \in 1..NumRows(call.db) :
                  Len(call.db.a1[k][r]) = NumCols(call.db)
                  /\ Len(call.db.a2[k][r]) = NumCols(call.db)
        /\ \A n \in Nodes(call.db) :
             StoredNative(call.db, n[1], n[2], n[3])
                 = NativeAbout(call.db,
                       PlaneOrigin(call.db.origin, call.db.axis3, call.db.offsets, n[1]),
                       n[1], n[2], n[3])

\* a dataset of two planes and one offset has been accepted, and its second
\* plane converted with the offset of the first
C18_Witness ==
    /\ Computed /\ {"a1", "a2"} \subseteq call.db.keys
    /\ NumPlanes(call.db) = 2 /\ Len(offsetlist(call.db.offsets)) = 1
    /\ StoredNative(call.db, 1, 0, 0)
           = NativeAbout(call.db, PlaneOrigin(call.db.origin, call.db.axis3,
                                              call.db.offsets, 0), 1, 0, 0)

\* the radius and the angle (in quarter turns) of sample (i, n), from 0: Nr
\* radii from r1 to r2, both included, Ntheta angles from theta1 towards
\* theta2, theta2 left out
RadiusAt(args, i) ==
    IF args.Nr = 1 THEN args.r1
    ELSE RAdd(args.r1, RDiv(RMul(I(i), RSub(args.r2, args.r1)), I(args.Nr - 1)))
AngleAt(args, n) ==
    RAdd(args.theta1, RDiv(RMul(I(n), RSub(args.theta2, args.theta1)), I(args.Ntheta)))
\* the sample (i, n) about the centre, in native coordinates
SampleAt(center, args, i, n) ==
    <<RAdd(center[1], RMul(RadiusAt(args, i), CosQ(AngleAt(args, n)))),
      RAdd(center[2], RMul(RadiusAt(args, i), SinQ(AngleAt(args, n))))>>
\* the value of var at a point of plane iplane, linear between the nodes
ValueAt(db, var, iplane, p) ==
    Interpolate([r \in 1..NumRows(db) |-> db.a2[iplane + 1][r][1]], db.a1[iplane + 1][1],
                db.fields[var][iplane + 1], p[2], p[1])
\* the arithmetic mean of var over the Ntheta samples of radius i
RingMean(db, var, iplane, center, args, i) ==
    RDiv(SumSeq([n \in 1..args.Ntheta |->
                   ValueAt(db, var, iplane, SampleAt(center, args, i, n - 1))]),
         I(args.Ntheta))
CircRunning == call.op = "circavg"

\* C19: circavgtemplate.execute samples, on every plane, Nr radii spaced
\* evenly over [r1, r2] with both ends and, at each radius, Ntheta angles spaced
\* evenly over [theta1, theta2) without theta2; the profile of a plane has Nr
\* rows in the order of increasing r, each with the arithmetic mean of every
\* requested variable over the Ntheta samples
C19_RadialProfile ==
    CircRunning =>
        \* the table of the radius just averaged holds the Ntheta samples
        /\ (call.pc = "circ_radius" /\ call.ir > 0) =>
               /\ call.interpdat.rows = call.args.Ntheta
               /\ \A n \in 1..call.args.Ntheta :
                    <<call.interpdat.a1[n], call.interpdat.a2[n]>>
                        = SampleAt(call.center, call.args, call.ir - 1, n - 1)
        \* the saved profiles
        /\ \A s \in DOMAIN call.saved :
             LET prof   == call.saved[s].profile
                 iplane == call.saved[s].iplane
                 center == CenterOnPlane(call.db, call.args, iplane).center
             IN  /\ Len(prof.r) = call.args.Nr
                 /\ prof.r[1] = call.args.r1
                 /\ call.args.Nr > 1 => prof.r[call.args.Nr] = call.args.r2
                 /\ \A i \in 1..call.args.Nr : prof.r[i] = RadiusAt(call.args, i - 1)
                 /\ \A i \in 1..(call.args.Nr - 1) : RLt(prof.r[i], prof.r[i + 1])
                 /\ \A v \in DOMAIN call.args.varnames :
                      /\ Len(prof.vars[v]) = call.args.Nr
                      /\ \A i \in 1..call.args.Nr :
                           prof.vars[v][i] =
                               RingMean(call.db, call.args.varnames[v], iplane, center,
                                        call.args, i - 1)

\* a saved profile of three radii with four samples each, of a variable that
\* differs from node to node
C19_Witness ==
    /\ CircRunning /\ call.saved # <<>>
    /\ call.args.Nr = 3 /\ call.args.Ntheta = 4
    /\ call.args.varnames[1] = "velocityx"
    /\ Len(call.saved[1].profile.r) = 3

\* the planes on which var has one value at every node
ConstantOn(db, var, iplane) ==
    \A r1 \in 1..NumRows(db), c1 \in 1..NumCols(db) :
        db.fields[var][iplane + 1][r1][c1] = db.fields[var][iplane + 1][1][1]

\* C20: for a field with the same value c at every node of a plane the
\* profile of that plane holds c at every radius, whatever the radii, the
\* centre and the range of angles
C20_ConstantField ==
    CircRunning =>
        \A s \in DOMAIN call.saved : \A v \in DOMAIN call.args.varnames :
            ConstantOn(call.db, call.args.varnames[v], call.saved[s].iplane) =>
                \A i \in DOMAIN call.saved[s].profile.vars[v] :
                    call.saved[s].profile.vars[v][i]
                        = call.db.fields[call.args.varnames[v]][call.saved[s].iplane + 1][1][1]

\* a saved profile of the constant field over circles of positive radius
\* about a centre that is not a node
C20_Witness ==
    /\ CircRunning /\ call.saved # <<>>
    /\ call.args.varnames[1] = "velocityy"
    /\ ConstantOn(call.db, "velocityy", call.saved[1].iplane)
    /\ call.args.Nr >= 2 /\ call.args.Ntheta >= 2
    /\ call.saved[1].profile.vars[1][call.args.Nr] = Rat(7, 2)

-----------------------------------------------------------------------------
(* C21 .. C27 *)

\* a complete dataset with axes that have a direction, one offset for every
\* plane, held as a list or as an array
WellFormed(db) ==
    /\ ConfigKeys \subseteq db.keys
    /\ ~ZeroNorm(db.axis1) /\ ~ZeroNorm(db.axis2)
    /\ db.offsets.kind \in {"list", "array"}
    /\ Len(offsetlist(db.offsets)) = NumPlanes(db)
\* the native coordinates of the centre given, on plane iplane
TrueCenter(db, args, iplane) ==
    IF args.pointcoordsystem = "A1A2" THEN args.centerpoint
    ELSE convert_pt_xyz_to_axis1axis2(<<args.centerpoint>>, "float", db.origin, db.axis1,
                                      db.axis2, db.axis3, db.offsets, <<iplane>>)[1]

\* C21: the centre of the radial profile may be given in 'XYZ' or in 'A1A2',
\* with offsets held as a list or as an array: circavgtemplate.execute does not
\* fail on the centre (only a circle that leaves the grid ends a run), and the
\* profile of a centre given in XYZ is that of the native centre it stands for
C21_EitherSystem ==
    (CircRunning /\ WellFormed(call.db)) =>
        /\ call.pc = "raised" => call.err = "ValueError"
        /\ \A s \in DOMAIN call.saved : \A v \in DOMAIN call.args.varnames :
           \A i \in 1..call.args.Nr :
               call.saved[s].profile.vars[v][i] =
                   RingMean(call.db, call.args.varnames[v], call.saved[s].iplane,
                            TrueCenter(call.db, call.args, call.saved[s].iplane),
                            call.args, i - 1)

\* a run with a native centre on a dataset whose offsets are a list has
\* ended in a TypeError before any profile
C21_Witness ==
    /\ CircRunning /\ WellFormed(call.db)
    /\ call.args.pointcoordsystem = "A1A2" /\ call.db.offsets.kind = "list"
    /\ call.pc = "raised" /\ call.err = "TypeError" /\ call.saved = <<>>

-----------------------------------------------------------------------------
(* Two callers of interp_db_pts on one dataset. In this specification call  *)
(* holds the dataset the callers share and the locals of each caller; the   *)
(* callers interleave between the statements that read or write the dataset *)

Callers == {1, 2}
\* the locals of a caller about to run interp_db_pts with args
Caller(args) ==
    [pc |-> "interp_db_pts", err |-> "", args |-> args, ip |-> 0, it |-> 0,
     pts |-> NoPoints, interpdat |-> NoTable, a1 |-> <<>>, a2 |-> <<>>]

\* the queries of the callers: a node on one plane, two points on two planes,
\* a point off the grid
SharedQueries ==
    {[ptlist |-> q.ptlist, ptdtype |-> "float", pt_coords |-> "A1A2",
      iplanelist |-> q.iplanelist, timeindex |-> <<None>>,
      varnames |-> <<"velocityx">>, method |-> "linear"] : q \in
        {[ptlist |-> <<<<I(2), I(1)>>>>, iplanelist |-> <<0>>],
         [ptlist |-> <<<<Half, Half>>, <<I(2), I(1)>>>>, iplanelist |-> <<1, 0>>],
         [ptlist |-> <<<<I(5), I(0)>>>>, iplanelist |-> <<0>>]}}
\* the datasets they share: without and with the cache, and without offsets
SharedDbs ==
    {PlaneDataset(TwoPlanes, V3(0, 0, 0), Stack, FALSE, GoodMeta),
     PlaneDataset(TwoPlanes, ShiftedOrigin, Stack, FALSE, GoodMeta),
     Preloaded(PlaneDataset(TwoPlanes, V3(0, 0, 0), Stack, FALSE, GoodMeta)),
     PlaneDataset(TwoPlanes, V3(0, 0, 0), Stack, FALSE,
                  [GoodMeta EXCEPT !.keys = ConfigKeys \ {"offsets"}])}

InitShared ==
    /\ \E db \in SharedDbs, q1 \in SharedQueries, q2 \in SharedQueries :
         call = [db |-> db, thread |-> <<Caller(q1), Caller(q2)>>]
    /\ bts = BtsIdle /\ file = FileIdle

\* caller t goes on with the locals th; the dataset is left as it is
Goes(t, th) == call' = [call EXCEPT !.thread[t] = th]
Fails(t, e) == Goes(t, [call.thread[t] EXCEPT !.pc = "raised", !.err = e])

\* lines 324-334: the cache check, made on the dataset as it is now
SharedCacheCheck(t) ==
    /\ call.thread[t].pc = "interp_db_pts"
    /\ Goes(t, [call.thread[t] EXCEPT
                  !.pc = IF NeedsCompute(call.db) THEN "compute" ELSE "interp_loop",
                  !.interpdat = EmptyTable(call.thread[t].args)])
    /\ UNCHANGED <<bts, file>>

\* lines 288-314: compute_axis1axis2_coords up to avec, which is local
SharedCompute(t) ==
    /\ call.thread[t].pc = "compute"
    /\ \E res \in {compute_axis1axis2_coords(call.db)} :
         IF res.err # "" THEN Fails(t, res.err)
         ELSE IF ~(ConfigKeys \subseteq call.db.keys)
         THEN Goes(t, [call.thread[t] EXCEPT !.pc = "interp_loop"])
         ELSE Goes(t, [call.thread[t] EXCEPT !.pc = "store_a1",
                                             !.a1 = res.db.a1, !.a2 = res.db.a2])
    /\ UNCHANGED <<bts, file>>

\* line 315: db['a1'] is bound to the new array
SharedStoreA1(t) ==
    /\ call.thread[t].pc = "store_a1"
    /\ call' = [call EXCEPT !.db.keys = @ \cup {"a1"}, !.db.a1 = call.thread[t].a1,
                            !.thread[t].pc = "store_a2"]
    /\ UNCHANGED <<bts, file>>

\* line 316: db['a2'] is bound to the new array
SharedStoreA2(t) ==
    /\ call.thread[t].pc = "store_a2"
    /\ call' = [call EXCEPT !.db.keys = @ \cup {"a2"}, !.db.a2 = call.thread[t].a2,
                            !.thread[t].pc = "interp_loop"]
    /\ UNCHANGED <<bts, file>>

\* lines 346-359
SharedPoints(t) ==
    /\ call.thread[t].pc = "interp_loop"
    /\ call.thread[t].ip < Len(call.thread[t].args.iplanelist)
    /\ \E pts \in {PointsOnPlane(call.db, call.thread[t].args.ptlist,
                                 call.thread[t].args.ptdtype,
                                 call.thread[t].args.pt_coords,
                                 call.thread[t].args.iplanelist[call.thread[t].ip + 1])} :
         IF pts.err # "" THEN Fails(t, pts.err)
         ELSE Goes(t, [call.thread[t] EXCEPT
                         !.pc = "interp_time", !.it = 0,
                         !.pts = [a1a2 |-> pts.a1a2, xyz |-> pts.xyz]])
    /\ UNCHANGED <<bts, file>>

\* lines 361-381: the interpolators are built from the a1 and a2 the dataset
\* holds now
SharedTime(t) ==
    /\ call.thread[t].pc = "interp_time"
    /\ call.thread[t].it < Len(call.thread[t].args.timeindex)
    /\ \E th \in {call.thread[t]} :
       \E blk \in {TimeBlock(call.db, th.args, th.args.iplanelist[th.ip + 1],
                             th.pts, th.it + 1)} :
         IF blk.err # "" THEN Fails(t, blk.err)
         ELSE Goes(t, [th EXCEPT
                         !.interpdat = Appended(th.interpdat, blk),
                         !.it = th.it + 1,
                         !.pc = IF th.it + 1 = Len(th.args.timeindex)
                                THEN "interp_loop" ELSE "interp_time",
                         !.ip = IF th.it + 1 = Len(th.args.timeindex)
                                THEN th.ip + 1 ELSE th.ip])
    /\ UNCHANGED <<bts, file>>

\* line 382
SharedReturn(t) ==
    /\ call.thread[t].pc = "interp_loop"
    /\ call.thread[t].ip = Len(call.thread[t].args.iplanelist)
    /\ Goes(t, [call.thread[t] EXCEPT !.pc = "returned"])
    /\ UNCHANGED <<bts, file>>

NextShared ==
    \E t \in Callers :
        \/ SharedCacheCheck(t) \/ SharedCompute(t)
        \/ SharedStoreA1(t) \/ SharedStoreA2(t)
        \/ SharedPoints(t) \/ SharedTime(t) \/ SharedReturn(t)
SpecShared == InitShared /\ [][NextShared]_vars

\* the native grid of the dataset, as one caller alone computes it
Alone(db) == compute_axis1axis2_coords(db).db
\* the outcome of interp_db_pts run alone on the dataset with its native grid:
\* the state after k passes of the loops over the planes and the time indices
RECURSIVE SeqRun(_, _, _)
SeqRun(db, args, k) ==
    IF k = 0 THEN [err |-> "", table |-> EmptyTable(args)]
    ELSE LET prev   == SeqRun(db, args, k - 1)
             iplane == args.iplanelist[((k - 1) \div Len(args.timeindex)) + 1]
             pts    == PointsOnPlane(db, args.ptlist, args.ptdtype, args.pt_coords, iplane)
             blk    == TimeBlock(db, args, iplane, pts, ((k - 1) % Len(args.timeindex)) + 1)
         IN  IF prev.err # "" THEN prev
             ELSE IF pts.err # "" THEN [err |-> pts.err, table |-> NoTable]
             ELSE IF blk.err # "" THEN [err |-> blk.err, table |-> NoTable]
             ELSE [err |-> "", table |-> Appended(prev.table, blk)]
Sequential(db, args) ==
    SeqRun(Alone(db), args, Len(args.iplanelist) * Len(args.timeindex))

\* C22: in every interleaving of two callers of interp_db_pts on one dataset
\* no caller interpolates with a1 or a2 missing or differing from the pair one
\* caller alone computes, both callers write the same values, and the cached
\* a1, a2 and the tables returned are those of a sequential run
C22_ConcurrentCallers ==
    /\ \A t \in Callers :
         LET th == call.thread[t]
         IN  /\ (th.pc = "interp_time" /\ ConfigKeys \subseteq call.db.keys) =>
                    /\ {"a1", "a2"} \subseteq call.db.keys
                    /\ call.db.a1 = Alone(call.db).a1 /\ call.db.a2 = Alone(call.db).a2
             /\ th.pc \in {"store_a1", "store_a2"} =>
                    th.a1 = Alone(call.db).a1 /\ th.a2 = Alone(call.db).a2
             /\ th.pc = "returned" =>
                    /\ Sequential(call.db, th.args).err = ""
                    /\ th.interpdat = Sequential(call.db, th.args).table
             /\ th.pc = "raised" => th.err = Sequential(call.db, th.args).err
    /\ "a1" \in call.db.keys => call.db.a1 = Alone(call.db).a1
    /\ "a2" \in call.db.keys => call.db.a2 = Alone(call.db).a2

\* one caller has returned its table of two planes while the other, having
\* found the cache incomplete, is between its writes of a1 and a2
C22_Witness ==
    /\ call.thread[1].pc = "returned" /\ call.thread[1].interpdat.rows = 4
    /\ call.thread[2].pc = "store_a2"
    /\ {"a1", "a2"} \subseteq call.db.keys

-----------------------------------------------------------------------------
(* The operations that are handed a dataset, taken together *)

InitCore == InitPlanes \/ InitBts
NextCore == NextPlanes \/ NextBts
SpecCore == InitCore /\ [][NextCore]_vars

\* what a plane dataset holds besides the native-coordinate cache
Rest(db) == [f \in (DOMAIN db) \ {"keys", "a1", "a2"} |-> db[f]]
\* a step from db to next keeps everything but the cache, adds no key but a1
\* and a2, and stores again what was stored
CacheOnly(db, next) ==
    /\ Rest(next) = Rest(db)
    /\ db.keys \subseteq next.keys /\ next.keys \subseteq db.keys \cup {"a1", "a2"}
    /\ "a1" \in db.keys => next.a1 = db.a1
    /\ "a2" \in db.keys => next.a2 = db.a2

\* C23: compute_axis1axis2_coords, interp_db_pts, circavgtemplate.execute and
\* convert_to_bts.execute leave the coordinates, the fields, times, timesteps,
\* origin, the axes and offsets of the dataset as they are; a1 and a2 are the
\* only keys added or overwritten, and computing them again stores the same
\* values
C23_DatasetReadOnly ==
    [][/\ call.pc # "idle" => CacheOnly(call.db, call'.db)
       /\ (bts.pc # "idle" /\ bts.entry = "execute") => bts'.db = bts.db]_vars

\* the native grid has been computed a second time on a dataset whose offsets
\* are a number
C23_Witness ==
    /\ call.pc # "idle" /\ call.ncompute = 2 /\ call.pc = "interp_loop"
    /\ {"a1", "a2"} \subseteq call.db.keys /\ call.db.offsets.kind = "scalar"

-----------------------------------------------------------------------------
(* C24: the grid convert_to_bts.execute extracts *)

\* the array dimensions (0, 1, 2) along which a coordinate array changes
Varies(arr, shape, d) ==
    \E i0 \in 1..shape[1], i1 \in 1..shape[2], i2 \in 1..shape[3] :
        LET j == [e \in 0..2 |-> <<i0, i1, i2>>[e + 1] + (IF e = d THEN 1 ELSE 0)]
        IN  /\ j[d] <= shape[d + 1]
            /\ arr[j[0]][j[1]][j[2]] # arr[i0][i1][i2]
\* the one along which no coordinate changes, when a dimension has one index
StillDim(db) ==
    CHOOSE d \in 0..2 : ~Varies(db.x, db.shape, d) /\ ~Varies(db.y, db.shape, d)
                        /\ ~Varies(db.z, db.shape, d)
\* the dimension of the array index that advances along a coordinate
DimOf(db, arr) ==
    IF \E d \in 0..2 : Varies(arr, db.shape, d)
    THEN CHOOSE d \in 0..2 : Varies(arr, db.shape, d)
    ELSE StillDim(db)
\* the node with streamwise index is_, lateral index il, vertical index iv
NodeOf(db, arr, is_, il, iv) ==
    LET idx == [d \in 0..2 |-> IF d = DimOf(db, db.x) THEN is_
                               ELSE IF d = DimOf(db, db.y) THEN il ELSE iv]
    IN  arr[idx[0] + 1][idx[1] + 1][idx[2] + 1]
Velocity(db, k) ==
    CASE k = 1 -> db.velocityx [] k = 2 -> db.velocityy [] k = 3 -> db.velocityz
\* execute has staged its box
Extracted == bts.entry = "execute" /\ bts.ts # NoBox

\* C24: for every component k, every time step t of timesteps in their order
\* and every lateral index iy and vertical index iz, the staged u[k, t, iy, iz]
\* is the k-th velocity at that time step at the node of streamwise index
\* iplane, lateral index iy and vertical index iz; ny and nz are the full
\* lateral and vertical extents of the dataset
C24_GridExtraction ==
    Extracted =>
        LET db == bts.db
            ny == db.shape[DimOf(db, db.y) + 1]
            nz == db.shape[DimOf(db, db.z) + 1]
        IN  /\ bts.ts.ushape = <<3, Len(db.timesteps), ny, nz>>
            /\ \A k \in 1..3 :
                 /\ Len(bts.ts.u[k]) = Len(db.timesteps)
                 /\ \A t \in 1..Len(db.timesteps) :
                      /\ Len(bts.ts.u[k][t]) = ny
                      /\ \A iy \in 1..ny :
                           /\ Len(bts.ts.u[k][t][iy]) = nz
                           /\ \A iz \in 1..nz :
                                bts.ts.u[k][t][iy][iz] =
                                    NodeOf(db, Velocity(db, k)[db.timesteps[t]],
                                           bts.actiondict.iplane, iy - 1, iz - 1)

\* the second of the x-z planes stacked along y, of a velocity that differs at
\* every node, staged for two time steps
C24_Witness ==
    /\ Extracted /\ bts.pc = "bts_write"
    /\ bts.db.axis3 = V3(0, 1, 0) /\ bts.actiondict.iplane = 1
    /\ Len(bts.db.timesteps) >= 2
    /\ bts.ts.u[2][2][1][2] # bts.ts.u[2][2][2][1]

-----------------------------------------------------------------------------
(* C25: the time column of interp_db_pts *)

\* C25: when time indices are requested each row's time is the dataset time
\* of the time step whose fields were interpolated for the row, for every list
\* of time indices, also a part or a reordering of the time steps; the table
\* has a time column exactly when time indices are supplied
C25_TimeColumn ==
    InterpReturned =>
        /\ call.interpdat.hasTime <=> call.args.timeindex[1] # None
        /\ call.interpdat.hasTime =>
               \A row \in 1..call.interpdat.rows :
                   call.interpdat.time[row] = call.db.times[TimeOfRow(call.args, row) + 1]

\* a table for the time indices [1, 0] whose first rows, interpolated from the
\* fields of time step 1, carry the time of time step 0
C25_Witness ==
    /\ InterpReturned /\ call.args.timeindex = <<1, 0>>
    /\ call.args.varnames # <<>>
    /\ call.interpdat.vars[1][1] =
           InterpVar(call.db, call.args.varnames[1], call.args.iplanelist[1], 1,
                     QueryOn(call.db, call.args, 0).a1a2, call.args.method).vals[1]
    /\ call.interpdat.time[1] = call.db.times[1]
    /\ call.db.times[1] # call.db.times[2]

-----------------------------------------------------------------------------
(* project_pt_to_plane *)

\* np.cross
Cross(u, v) ==
    <<RSub(RMul(u[2], v[3]), RMul(u[3], v[2])),
      RSub(RMul(u[3], v[1]), RMul(u[1], v[3])),
      RSub(RMul(u[1], v[2]), RMul(u[2], v[1]))>>

\* project_pt_to_plane(pt, origin, axis1, axis2, axis3, offsets, iplane), for
\* offsets that can be indexed
project_pt_to_plane(pt, origin, axis1, axis2, axis3, offsets, iplane) ==
    LET n1         == UnitAxis(axis1)
        n2         == UnitAxis(axis2)
        porigin    == VAdd(origin, VScale(UnitAxis3(axis3), offsets.val[iplane + 1]))
        pnormal    == Cross(n1, n2)
        dv         == VSub(pt, porigin)
        v_parallel == VScale(pnormal, Dot(dv, pnormal))
        v_perp     == VSub(dv, v_parallel)
    IN  VAdd(pt, v_perp)

\* the points projected: the origin, points on the plane x = 0 and off it
ProjectPts == {V3(0, 0, 0), V3(0, 2, 3), V3(10, 2, 3), <<I(1), Half, I(0)>>}
\* axis2 is normal to every axis1 of Axis1Set
ProjectAxis2 == V3(0, 0, 1)

InitProject ==
    /\ \E pt \in ProjectPts, origin \in OriginSet, axis1 \in Axis1Set,
          axis3 \in Axis3Set, offsets \in OffsetsSet :
         \E iplane \in 0..(NPlanes(offsets) - 1) :
           call = [pc |-> "project", err |-> "", pt |-> pt, origin |-> origin,
                   axis1 |-> axis1, axis2 |-> ProjectAxis2, axis3 |-> axis3,
                   offsets |-> offsets, iplane |-> iplane,
                   p_proj |-> <<>>, p_again |-> <<>>]
    /\ bts = BtsIdle /\ file = FileIdle

\* line 267: offsets[iplane] of a number
ProjectRaises ==
    /\ call.pc = "project" /\ call.offsets.kind = "scalar"
    /\ call' = [call EXCEPT !.pc = "raised", !.err = "TypeError"]
    /\ UNCHANGED <<bts, file>>

\* p_proj = project_pt_to_plane(pt, ...)
Project ==
    /\ call.pc = "project" /\ call.offsets.kind # "scalar"
    /\ call' = [call EXCEPT
                  !.pc = "projected",
                  !.p_proj = project_pt_to_plane(call.pt, call.origin, call.axis1,
                                 call.axis2, call.axis3, call.offsets, call.iplane)]
    /\ UNCHANGED <<bts, file>>

\* the caller projects the result again
ProjectAgain ==
    /\ call.pc = "projected"
    /\ call' = [call EXCEPT
                  !.pc = "again",
                  !.p_again = project_pt_to_plane(call.p_proj, call.origin, call.axis1,
                                  call.axis2, call.axis3, call.offsets, call.iplane)]
    /\ UNCHANGED <<bts, file>>

NextProject == ProjectRaises \/ Project \/ ProjectAgain
SpecProject == InitProject /\ [][NextProject]_vars

\* the plane of the call and the distance of a point from it along the normal
ProjectOrigin ==
    PlaneOrigin(call.origin, call.axis3, call.offsets, call.iplane)
ProjectNormal == Cross(UnitAxis(call.axis1), UnitAxis(call.axis2))
OffPlane(p) == Dot(VSub(p, ProjectOrigin), ProjectNormal)

\* C26: the point p that project_pt_to_plane returns lies on the plane,
\* dot(p - planeOrigin, normal) = 0 with normal = n1 x n2 and planeOrigin =
\* origin + n3*offsets[iplane]; a point already on the plane is returned as it
\* is; projecting the result again gives the same point
C26_ProjectsOntoPlane ==
    /\ call.pc \in {"projected", "again"} =>
           /\ OffPlane(call.p_proj) = I(0)
           /\ OffPlane(call.pt) = I(0) => call.p_proj = call.pt
    /\ call.pc = "again" => call.p_again = call.p_proj

\* a point on the plane has been moved by the projection, and moved again by
\* the second one
C26_Witness ==
    /\ call.pc = "again"
    /\ OffPlane(call.pt) = I(0)
    /\ call.p_proj # call.pt /\ call.p_again # call.p_proj

-----------------------------------------------------------------------------
(* mergedicts *)

\* dictionaries are functions from the keys present to values (strings)
KeyDef(key, required, default) == [key |-> key, required |-> required, default |-> default]
\* dataconverters.py, lines 38-44: the inputs of the task
inputdefs ==
    <<KeyDef("name", TRUE, ""), KeyDef("ncfile", TRUE, ""),
      KeyDef("group", FALSE, "None"), KeyDef("trange", TRUE, "None")>>
\* dataconverters.py, lines 90-96: the inputs of convert_to_bts
actiondefs ==
    <<KeyDef("iplane", TRUE, "0"), KeyDef("yhh", TRUE, "None"), KeyDef("zhh", TRUE, "None"),
      KeyDef("btsfile", TRUE, "None"), KeyDef("ID", FALSE, "8")>>
DeclaredKeys(defs) == {defs[i].key : i \in DOMAIN defs}
\* what the caller hands over: any of the declared keys and a key that is not
\* declared, each with a value of the caller
InputDicts(defs) ==
    {[k \in D |-> "given"] : D \in SUBSET (DeclaredKeys(defs) \cup {"extra"})}

\* a mutant: a missing required key gets its default
MergeKey_lenient(outputdict, key) ==
    IF key.key \notin DOMAIN outputdict
    THEN [err |-> "",
          outputdict |-> [k \in DOMAIN outputdict \cup {key.key} |->
                            IF k = key.key THEN key.default ELSE outputdict[k]]]
    ELSE [err |-> "", outputdict |-> outputdict]

\* lines 59-64: one pass of the loop over inputdefs
MergeKey(outputdict, key) ==
    IF key.required /\ key.key \notin DOMAIN outputdict
    THEN [err |-> "ValueError", outputdict |-> outputdict]
    ELSE IF ~key.required /\ key.key \notin DOMAIN outputdict
    THEN [err |-> "",
          outputdict |-> [k \in DOMAIN outputdict \cup {key.key} |->
                            IF k = key.key THEN key.default ELSE outputdict[k]]]
    ELSE [err |-> "", outputdict |-> outputdict]

NoDict == [k \in {} |-> ""]
InitMerge ==
    /\ \E defs \in {inputdefs, actiondefs} : \E inputdict \in InputDicts(defs) :
         call = [pc |-> "mergedicts", err |-> "", inputdict |-> inputdict,
                 inputdefs |-> defs, outputdict |-> NoDict, i |-> 0,
                 returned |-> NoDict]
    /\ bts = BtsIdle /\ file = FileIdle

\* lines 55-58: an empty dictionary, or a deep copy of the input
MergeCopy ==
    /\ call.pc = "mergedicts"
    /\ call' = [call EXCEPT
                  !.pc = "loop", !.i = 0,
                  !.outputdict = IF DOMAIN call.inputdict = {} THEN NoDict
                                 ELSE call.inputdict]
    /\ UNCHANGED <<bts, file>>

\* lines 59-64
MergeLoop ==
    /\ call.pc = "loop" /\ call.i < Len(call.inputdefs)
    /\ LET res == MergeKey(call.outputdict, call.inputdefs[call.i + 1])
       IN  call' = IF res.err # ""
                   THEN [call EXCEPT !.pc = "raised", !.err = res.err]
                   ELSE [call EXCEPT !.i = call.i + 1, !.outputdict = res.outputdict]
    /\ UNCHANGED <<bts, file>>

\* line 65
MergeReturn ==
    /\ call.pc = "loop" /\ call.i = Len(call.inputdefs)
    /\ call' = [call EXCEPT !.pc = "returned", !.returned = call.outputdict]
    /\ UNCHANGED <<bts, file>>

NextMerge == MergeCopy \/ MergeLoop \/ MergeReturn
SpecMerge == InitMerge /\ [][NextMerge]_vars

\* the declared keys that are required, those that are optional, and the
\* required ones the input lacks
RequiredKeys(defs) == {defs[i].key : i \in {j \in DOMAIN defs : defs[j].required}}
OptionalKeys(defs) == {defs[i].key : i \in {j \in DOMAIN defs : ~defs[j].required}}
DefaultOf(defs, key) == defs[CHOOSE i \in DOMAIN defs : defs[i].key = key].default
MissingRequired == RequiredKeys(call.inputdefs) \ DOMAIN call.inputdict

\* C27: when a key declared required is absent from the input mergedicts
\* raises ValueError and returns nothing; otherwise the result holds every
\* input key with its input value and every absent optional key with its
\* declared default; a default never stands in for a required key, and the
\* dictionary of the caller is not modified
C27_MergeValidates ==
    /\ [](/\ MissingRequired # {} =>
                /\ call.pc # "returned" /\ call.returned = NoDict
                /\ call.pc = "raised" => call.err = "ValueError"
          /\ MissingRequired = {} => call.pc # "raised"
          /\ call.pc = "returned" =>
                /\ DOMAIN call.returned
                       = DOMAIN call.inputdict \cup OptionalKeys(call.inputdefs)
                /\ \A k \in DOMAIN call.inputdict : call.returned[k] = call.inputdict[k]
                /\ \A k \in OptionalKeys(call.inputdefs) \ DOMAIN call.inputdict :
                       call.returned[k] = DefaultOf(call.inputdefs, k))
    /\ [][call'.inputdict = call.inputdict]_vars

\* a result with the caller's own keys, an undeclared one among them, and the
\* default of the optional key the caller left out
C27_Witness ==
    /\ call.pc = "returned"
    /\ "ID" \in OptionalKeys(call.inputdefs) /\ "ID" \notin DOMAIN call.inputdict
    /\ "extra" \in DOMAIN call.inputdict
    /\ call.returned["ID"] = "8" /\ call.returned["extra"] = "given"
    /\ call.returned["iplane"] = "given"

=============================================================================
